---- MODULE Spec2Model ----
(***************************************************************************)
(* Backend selection and inference orchestration of the mobile AI bridge:  *)
(* the JNI orchestrator (mobile_ai_jni_bridge.cpp) and the two engine      *)
(* adapters it drives, TFLiteGPUService (mock build and production build)  *)
(* and ONNXMobileService.                                                  *)
(*                                                                         *)
(* Conventions.  A C++ pointer is "nullptr" or "ptr"; the model that       *)
(* FlatBufferModel::BuildFromBuffer builds over model_buffer_ without      *)
(* copying it is "ptr_buffer".  A std::unique_ptr to                       *)
(* a service object is the empty sequence (null) or a one-element sequence *)
(* holding the object's fields.  A bool returned by an adapter is logged   *)
(* as "true"/"false".  Scores are integers in thousandths.                 *)
(***************************************************************************)
EXTENDS Integers, Sequences, FiniteSets, TLC

VARIABLES
    real_tflite,      \* REAL_TFLITE_AVAILABLE: production (TRUE) or mock (FALSE) adapter
    is_initialized,   \* static bool is_initialized
    active_backend,   \* static std::string active_backend
    tflite_service,   \* static std::unique_ptr<TFLiteGPUService>
    onnx_service,     \* static std::unique_ptr<ONNXMobileService>
    last,             \* the last JNI call: its name, argument, result, adapter calls, pre-state
    cleaned_up,       \* history: cleanup has run and no initialize call has returned true since
    adapter,          \* a TFLiteGPUService object driven directly through its public methods
    onnx_adapter,     \* an ONNXMobileService object driven directly
    call,             \* the last call on adapter or onnx_adapter
    threads           \* two JNI calls in flight on two threads: where each stands

vars == <<real_tflite, is_initialized, active_backend, tflite_service, onnx_service,
          last, cleaned_up, adapter, onnx_adapter, call, threads>>

(***************************************************************************)
(* Inputs.                                                                 *)
(***************************************************************************)
Null == <<>>

B2S(b) == IF b THEN "true" ELSE "false"

Paths == {"/data/model.tflite", "/data/absent.tflite"}

Texts == {"", "hi"}

\* The candidate lists the two builds walk, in order.
MockCandidates ==
    << "models/phi3_mini_mobile.tflite", "models/distilbert_mobile.tflite",
       "models/text_generator_mobile.tflite", "models/gemma_270m_mobile.tflite",
       "models/test_model.tflite" >>

ProdCandidates ==
    << "models/real_tinyllama.tflite", "models/tiny_transformer.tflite",
       "models/numeric_model.tflite", "models/simple_text_model.tflite" >>

AssetNames ==
    {MockCandidates[i] : i \in DOMAIN MockCandidates}
        \cup {ProdCandidates[i] : i \in DOMAIN ProdCandidates}

\* What the asset store holds under a name: nothing, an empty asset, an asset
\* whose read comes back short, bytes that are no model, or a model.
AssetStatus == {"missing", "empty", "shortread", "badmodel", "ok"}

\* Asset stores: the first and the last candidate of each list take every
\* status; the candidates in between are absent.
StoreOf(a, b) ==
    [n \in AssetNames |->
        IF n \in {MockCandidates[1], ProdCandidates[1]} THEN a
        ELSE IF n \in {MockCandidates[Len(MockCandidates)],
                       ProdCandidates[Len(ProdCandidates)]} THEN b
        ELSE "missing"]

AssetStores == {StoreOf(a, b) : a \in AssetStatus, b \in AssetStatus}

\* AAssetManager_fromJava: a null manager, or one backed by a store.
AssetManagers == {Null} \cup {<<s>> : s \in AssetStores}

(***************************************************************************)
(* ONNXMobileService (onnx_mobile_service.cpp).                            *)
(***************************************************************************)
ONNXMobileService == [initialized_ |-> FALSE, model_path_ |-> ""]

\* throws: the try block raises a std::exception before initialized_ is set.
ONNX_initialize(s, model_path, throws) ==
    IF throws
    THEN [svc |-> s, ret |-> FALSE]
    ELSE [svc |-> [s EXCEPT !.model_path_ = model_path, !.initialized_ = TRUE],
          ret |-> TRUE]

ONNX_processInference(s, input_text, throws) ==
    IF ~s.initialized_ THEN "Error: Service not initialized"
    ELSE IF throws THEN "Error: Inference failed"
    ELSE "ONNX Runtime Mobile inference result for: " \o input_text

isNNAPIAvailable(s) == TRUE

ONNX_getPerformanceScore(s) == 500

ONNX_cleanup(s) ==
    IF s.initialized_ THEN [s EXCEPT !.initialized_ = FALSE] ELSE s

(***************************************************************************)
(* TFLiteGPUService, fields shared by both builds (tflite_gpu_service.h).  *)
(* model_buffer_ is the name of the asset whose bytes it holds, or "".     *)
(***************************************************************************)
Mock_TFLiteGPUService ==
    [initialized_ |-> FALSE, model_loaded_ |-> FALSE, model_path_ |-> "",
     interpreter_ |-> "nullptr", model_ |-> "indeterminate",
     gpu_delegate_ |-> "nullptr", asset_manager_ |-> Null, model_buffer_ |-> ""]

Prod_TFLiteGPUService ==
    [initialized_ |-> FALSE, model_loaded_ |-> FALSE, model_path_ |-> "",
     interpreter_ |-> "nullptr", model_ |-> "nullptr",
     gpu_delegate_ |-> "nullptr", asset_manager_ |-> Null, model_buffer_ |-> ""]

\* AAssetManager_open / AAsset_getLength / AAsset_read on the manager's store.
AssetStatusOf(am, name) ==
    IF am = Null \/ name \notin AssetNames THEN "missing" ELSE am[1][name]

\* What the adapter's initialize meets in one call: an exception in the try
\* block, the model file parsing, the delegate being created, the interpreter
\* being built and its tensors allocated.
InitEnv ==
    [throws : BOOLEAN, fileOk : BOOLEAN, delegateOk : BOOLEAN,
     build : {"ok", "builder_fail", "alloc_fail"}]

(***************************************************************************)
(* Mock build (tflite_gpu_service.cpp).                                    *)
(***************************************************************************)
\* cleanup that releases the resources and leaves initialized_ set.
Mock_cleanup_KeepInitialized(s) ==
    IF s.initialized_
    THEN [s EXCEPT !.interpreter_ = "nullptr", !.gpu_delegate_ = "nullptr",
                   !.model_ = "nullptr", !.model_loaded_ = FALSE]
    ELSE s

Mock_cleanup(s) ==
    IF s.initialized_
    THEN [s EXCEPT !.interpreter_ = "nullptr", !.gpu_delegate_ = "nullptr",
                   !.model_ = "nullptr", !.initialized_ = FALSE,
                   !.model_loaded_ = FALSE]
    ELSE s

Mock_loadModelFromAssets(s) ==
    LET st == AssetStatusOf(s.asset_manager_, s.model_path_) IN
    IF s.asset_manager_ = Null \/ st = "missing"
    THEN [svc |-> s, ret |-> FALSE]
    ELSE LET buf == IF st = "empty" THEN "" ELSE s.model_path_
             s1  == [s EXCEPT !.model_buffer_ = buf] IN
         IF st = "shortread"
         THEN [svc |-> s1, ret |-> FALSE]
         ELSE [svc |-> [s1 EXCEPT !.model_ = "ptr", !.model_loaded_ = TRUE],
               ret |-> TRUE]

Mock_loadModelFromFile(s) ==
    [svc |-> [s EXCEPT !.model_ = "ptr", !.model_loaded_ = TRUE], ret |-> TRUE]

Mock_loadModel(s) ==
    IF s.asset_manager_ # Null
    THEN Mock_loadModelFromAssets(s)
    ELSE Mock_loadModelFromFile(s)

Mock_initializeGPUDelegate(s) ==
    [svc |-> [s EXCEPT !.gpu_delegate_ = "ptr"], ret |-> TRUE]

\* After loadModel succeeded model_ is the mock pointer, so the null test at
\* the head of buildInterpreter reads a set pointer.
Mock_buildInterpreter(s) ==
    IF s.model_ = "nullptr"
    THEN [svc |-> s, ret |-> FALSE]
    ELSE [svc |-> [s EXCEPT !.interpreter_ = "ptr"], ret |-> TRUE]

Mock_initialize(s, model_path, e) ==
    IF e.throws
    THEN [svc |-> Mock_cleanup(s), ret |-> FALSE]
    ELSE LET s1   == [s EXCEPT !.model_path_ = model_path]
             load == Mock_loadModel(s1) IN
         IF ~load.ret THEN [svc |-> load.svc, ret |-> FALSE]
         ELSE LET del   == Mock_initializeGPUDelegate(load.svc)
                  build == Mock_buildInterpreter(del.svc) IN
              IF ~build.ret THEN [svc |-> build.svc, ret |-> FALSE]
              ELSE [svc |-> [build.svc EXCEPT !.initialized_ = TRUE],
                    ret |-> TRUE]

\* The object as initialize hands it to warmUpModel (model loaded, delegate
\* and interpreter made, initialized_ not yet assigned); empty if initialize
\* returns before the warm-up.
Mock_atWarmUp(s, model_path, e) ==
    IF e.throws THEN <<>>
    ELSE LET load == Mock_loadModel([s EXCEPT !.model_path_ = model_path]) IN
         IF ~load.ret THEN <<>>
         ELSE LET build == Mock_buildInterpreter(Mock_initializeGPUDelegate(load.svc).svc) IN
              IF ~build.ret THEN <<>> ELSE << build.svc >>

Mock_initializeFallbackMode(s) ==
    [svc |-> [s EXCEPT !.initialized_ = TRUE, !.model_loaded_ = FALSE,
                       !.gpu_delegate_ = "ptr"],
     ret |-> TRUE]

\* The loop over model_candidates, from candidate i on.  opened lists, in
\* order, the candidates AAssetManager_open found and initialize was run on.
RECURSIVE Mock_tryCandidates(_, _, _)
Mock_tryCandidates(s, i, e) ==
    IF i > Len(MockCandidates)
    THEN LET fb == Mock_initializeFallbackMode(s) IN
         [svc |-> fb.svc, ret |-> fb.ret, opened |-> <<>>]
    ELSE IF AssetStatusOf(s.asset_manager_, MockCandidates[i]) = "missing"
    THEN Mock_tryCandidates(s, i + 1, e)
    ELSE LET r == Mock_initialize(s, MockCandidates[i], e) IN
         IF r.ret
         THEN [svc |-> r.svc, ret |-> TRUE, opened |-> << MockCandidates[i] >>]
         ELSE LET rest == Mock_tryCandidates(r.svc, i + 1, e) IN
              [rest EXCEPT !.opened = << MockCandidates[i] >> \o rest.opened]

Mock_initializeWithAssets(s, asset_manager, e) ==
    Mock_tryCandidates([s EXCEPT !.asset_manager_ = asset_manager], 1, e)

Mock_isGPUAvailable(s) == TRUE

Min(a, b) == IF a < b THEN a ELSE b

Max(a, b) == IF a > b THEN a ELSE b

\* std::string::substr(0, n)
Substr0(str, n) == SubSeq(str, 1, Min(n, Len(str)))

\* std::fixed << std::setprecision(1) of a value given in tenths.
Fixed1(tenths) == ToString(tenths \div 10) \o "." \o ToString(tenths % 10)

\* The draws of uniform_real_distribution(-0.03f, 0.03f), in thousandths.
Variations == {0 - 30, 0, 30}

Mock_getPerformanceScore(s, variation) ==
    IF ~s.initialized_ THEN 0
    ELSE LET base_score == IF s.gpu_delegate_ # "nullptr" THEN 700 ELSE 400
         IN  Min(1000, Max(0, base_score + variation))

Mock_generateFallbackResponse(s, input, variation) ==
    "TensorFlow Lite GPU Mock Response:\n"
    \o "Input: " \o Substr0(input, 100)
    \o (IF Len(input) > 100 THEN "..." ELSE "") \o "\n"
    \o "Processing: GPU-accelerated inference simulation\n"
    \o "Backend: Adreno 750 GPU (simulated)\n"
    \o "Model: Mobile-optimized language model (mock)\n"
    \o "Performance: ~"
    \o (IF s.gpu_delegate_ # "nullptr" THEN "200-500ms" ELSE "500-1000ms")
    \o " response time\n"
    \o "Status: Architecture ready for actual model integration\n"
    \o "GPU Available: " \o (IF Mock_isGPUAvailable(s) THEN "Yes" ELSE "No") \o "\n"
    \o "Performance Score: " \o Fixed1(Mock_getPerformanceScore(s, variation)) \o "%"

response_templates ==
    << "I understand your query and here's my analysis: ",
       "Based on the input, I can provide the following response: ",
       "Thank you for your question. My processed response is: ",
       "After analyzing your input, here's what I can tell you: " >>

continuations ==
    << "The information you provided is interesting and relevant.",
       "I've processed this through the mobile AI inference engine.",
       "This demonstrates successful TensorFlow Lite GPU acceleration.",
       "The response time shows optimal mobile performance.",
       "The neural network has generated this contextual output." >>

\* What one mock inference meets: an exception in the try block, the two
\* random draws of decodeOutput and the draw of getPerformanceScore.
MockInferEnv ==
    [throws : BOOLEAN, tmpl : DOMAIN response_templates,
     cont : DOMAIN continuations, variation : Variations]

Mock_setInputTensor(s) == s.interpreter_ # "nullptr"

Mock_decodeOutput(s, ie) ==
    IF s.interpreter_ = "nullptr" THEN "Error: No interpreter"
    ELSE response_templates[ie.tmpl] \o continuations[ie.cont]
         \o " [TensorFlow Lite "
         \o (IF s.gpu_delegate_ # "nullptr" THEN "GPU" ELSE "CPU")
         \o " - Adreno 750 optimized]"

Mock_processInference_NoFallbackBranch(s, input_text, ie) ==
    IF ~s.initialized_ THEN "Error: Service not initialized"
    ELSE IF ie.throws THEN "Error: Inference exception - std::bad_alloc"
    ELSE IF ~Mock_setInputTensor(s) THEN "Error: Failed to set input tensor"
    ELSE Mock_decodeOutput(s, ie)

Mock_processInference(s, input_text, ie) ==
    IF ~s.initialized_ THEN "Error: Service not initialized"
    ELSE IF ie.throws THEN "Error: Inference exception - std::bad_alloc"
    ELSE IF ~s.model_loaded_
    THEN Mock_generateFallbackResponse(s, input_text, ie.variation)
    ELSE IF ~Mock_setInputTensor(s) THEN "Error: Failed to set input tensor"
    ELSE Mock_decodeOutput(s, ie)

(***************************************************************************)
(* Production build (tflite_gpu_service_prod_headers.cpp).                 *)
(***************************************************************************)
\* cleanup that releases the resources and leaves both flags as they were.
Prod_cleanup_KeepFlags(s) ==
    IF s.initialized_
    THEN [s EXCEPT !.gpu_delegate_ = "nullptr", !.interpreter_ = "nullptr",
                   !.model_ = "nullptr", !.model_buffer_ = ""]
    ELSE s

Prod_cleanup(s) ==
    IF s.initialized_
    THEN [s EXCEPT !.gpu_delegate_ = "nullptr", !.interpreter_ = "nullptr",
                   !.model_ = "nullptr", !.model_buffer_ = "",
                   !.initialized_ = FALSE, !.model_loaded_ = FALSE]
    ELSE s

Prod_loadModelFromFile(s, e) ==
    IF e.fileOk
    THEN [svc |-> [s EXCEPT !.model_ = "ptr", !.model_loaded_ = TRUE], ret |-> TRUE]
    ELSE [svc |-> [s EXCEPT !.model_ = "nullptr"], ret |-> FALSE]

\* The loop over model_files, from candidate i on.  opened lists, in order,
\* the candidates AAssetManager_open found.
RECURSIVE Prod_tryModelFiles(_, _)
Prod_tryModelFiles(s, i) ==
    IF i > Len(ProdCandidates) THEN [svc |-> s, ret |-> FALSE, opened |-> <<>>]
    ELSE LET name == ProdCandidates[i]
             st   == AssetStatusOf(s.asset_manager_, name)
             s1   == [s EXCEPT !.model_buffer_ = name]
             rest == CASE st \in {"missing", "empty"} -> Prod_tryModelFiles(s, i + 1)
                       [] st = "shortread" -> Prod_tryModelFiles(s1, i + 1)
                       [] st = "badmodel" ->
                            Prod_tryModelFiles([s1 EXCEPT !.model_ = "nullptr"], i + 1)
                       [] OTHER ->
                            [svc |-> [s1 EXCEPT !.model_ = "ptr_buffer",
                                                !.model_loaded_ = TRUE],
                             ret |-> TRUE, opened |-> <<>>]
         IN  IF st = "missing" THEN rest
             ELSE [rest EXCEPT !.opened = << name >> \o rest.opened]

Prod_loadModelFromAssets(s) == Prod_tryModelFiles(s, 1)

\* What model_ holds at each model_buffer_.resize(asset_size) of the loop
\* over model_files, from candidate i on, in order.
RECURSIVE Prod_refills(_, _)
Prod_refills(s, i) ==
    IF i > Len(ProdCandidates) THEN <<>>
    ELSE LET st == AssetStatusOf(s.asset_manager_, ProdCandidates[i]) IN
         CASE st \in {"missing", "empty"} -> Prod_refills(s, i + 1)
           [] st = "shortread" -> << s.model_ >> \o Prod_refills(s, i + 1)
           [] st = "badmodel" ->
                << s.model_ >> \o Prod_refills([s EXCEPT !.model_ = "nullptr"], i + 1)
           [] OTHER -> << s.model_ >>

Prod_initializeGPUDelegate(s, e) ==
    IF e.delegateOk
    THEN [svc |-> [s EXCEPT !.gpu_delegate_ = "ptr"], ret |-> TRUE]
    ELSE [svc |-> [s EXCEPT !.gpu_delegate_ = "nullptr"], ret |-> FALSE]

Prod_buildInterpreter(s, e) ==
    IF s.model_ = "nullptr" THEN [svc |-> s, ret |-> FALSE]
    ELSE IF e.build = "builder_fail"
    THEN [svc |-> [s EXCEPT !.interpreter_ = "nullptr"], ret |-> FALSE]
    ELSE [svc |-> [s EXCEPT !.interpreter_ = "ptr"], ret |-> e.build = "ok"]

\* The part of initialize and initializeWithAssets after the model is loaded.
Prod_finishInitialize_DelegateFatal(s, e) ==
    LET del == Prod_initializeGPUDelegate(s, e) IN
    IF ~del.ret THEN [svc |-> del.svc, ret |-> FALSE]
    ELSE LET build == Prod_buildInterpreter(del.svc, e) IN
         IF ~build.ret THEN [svc |-> build.svc, ret |-> FALSE]
         ELSE [svc |-> [build.svc EXCEPT !.initialized_ = TRUE], ret |-> TRUE]

Prod_finishInitialize(s, e) ==
    LET del   == Prod_initializeGPUDelegate(s, e)
        build == Prod_buildInterpreter(del.svc, e) IN
    IF ~build.ret THEN [svc |-> build.svc, ret |-> FALSE]
    ELSE [svc |-> [build.svc EXCEPT !.initialized_ = TRUE], ret |-> TRUE]

Prod_initialize(s, model_path, e) ==
    IF s.initialized_ THEN [svc |-> s, ret |-> TRUE]
    ELSE LET s1 == [s EXCEPT !.model_path_ = model_path] IN
         IF e.throws THEN [svc |-> s1, ret |-> FALSE]
         ELSE LET load == Prod_loadModelFromFile(s1, e) IN
              IF ~load.ret THEN [svc |-> load.svc, ret |-> FALSE]
              ELSE Prod_finishInitialize(load.svc, e)

Prod_initializeWithAssets(s, asset_manager, e) ==
    IF s.initialized_ THEN [svc |-> s, ret |-> TRUE, opened |-> <<>>]
    ELSE IF asset_manager = Null THEN [svc |-> s, ret |-> FALSE, opened |-> <<>>]
    ELSE LET s1 == [s EXCEPT !.asset_manager_ = asset_manager] IN
         IF e.throws THEN [svc |-> s1, ret |-> FALSE, opened |-> <<>>]
         ELSE LET load == Prod_loadModelFromAssets(s1) IN
              IF ~load.ret THEN load
              ELSE LET fin == Prod_finishInitialize(load.svc, e) IN
                   [svc |-> fin.svc, ret |-> fin.ret, opened |-> load.opened]

\* The refills of model_buffer_ in one call of initializeWithAssets.
Prod_refillsOfInitializeWithAssets(s, asset_manager, e) ==
    IF s.initialized_ \/ asset_manager = Null \/ e.throws THEN <<>>
    ELSE Prod_refills([s EXCEPT !.asset_manager_ = asset_manager], 1)

Prod_generateFallbackResponse(input) ==
    "TensorFlow Lite processed: '" \o Substr0(input, 50)
    \o (IF Len(input) > 50 THEN "..." ELSE "") \o "' [Fallback mode]"

\* std::fixed << std::setprecision(3) of a score given in thousandths.
Fixed3(th) ==
    LET a    == IF th < 0 THEN 0 - th ELSE th
        frac == a % 1000 IN
    (IF th < 0 THEN "-" ELSE "") \o ToString(a \div 1000) \o "."
    \o (IF frac < 10 THEN "00" ELSE IF frac < 100 THEN "0" ELSE "")
    \o ToString(frac)

\* static_cast<char> of a code in 1..127.  Codes that no TLA+ string literal
\* can hold (control characters, the grave accent) are written "?".
AsciiLow == " !\"#$%&'()*+,-./0123456789:;<=>?@ABCDEFGHIJKLMNOPQRSTUVWXYZ[\\]^_"

AsciiHigh == "abcdefghijklmnopqrstuvwxyz{|}~"

Chr(c) ==
    IF c >= 32 /\ c <= 95 THEN SubSeq(AsciiLow, c - 31, c - 31)
    ELSE IF c >= 97 /\ c <= 126 THEN SubSeq(AsciiHigh, c - 96, c - 96)
    ELSE "?"

\* The scan  best = 0; for (i = 1; i < n; ++i) if (x[i] > best_score) ...
\* over scores[off + 0 .. off + n - 1]; indices are zero-based as in the code.
\* The scan with  >=  in place of  > : the last index of the maximum.
RECURSIVE ArgMaxScan_LastWins(_, _, _, _, _)
ArgMaxScan_LastWins(scores, off, n, i, best) ==
    IF i >= n THEN best
    ELSE ArgMaxScan_LastWins(scores, off, n, i + 1,
                             IF scores[off + i + 1] >= scores[off + best + 1]
                             THEN i ELSE best)

RECURSIVE ArgMaxScan(_, _, _, _, _)
ArgMaxScan(scores, off, n, i, best) ==
    IF i >= n THEN best
    ELSE ArgMaxScan(scores, off, n, i + 1,
                    IF scores[off + i + 1] > scores[off + best + 1] THEN i ELSE best)

RECURSIVE AsciiOf(_, _, _)
AsciiOf(data, i, n) ==
    IF i > n THEN ""
    ELSE (IF data[i] > 0 /\ data[i] < 128 THEN Chr(data[i]) ELSE "")
         \o AsciiOf(data, i + 1, n)

\* First output tensors of the built interpreter: type, dims and data (float
\* scores in thousandths), each holding at least one element.
OutTensors ==
    { [kind |-> "tensor", type |-> "kTfLiteFloat32", dims |-> <<1, 1, 4>>,
       data |-> <<100, 900, 900, 200>>],
      [kind |-> "tensor", type |-> "kTfLiteFloat32", dims |-> <<1, 2, 2>>,
       data |-> <<900, 100, 200, 700>>],
      [kind |-> "tensor", type |-> "kTfLiteFloat32", dims |-> <<1, 4>>,
       data |-> <<100, 900, 900, 200>>],
      [kind |-> "tensor", type |-> "kTfLiteInt32", dims |-> <<1, 3>>, data |-> <<72, 105, 0>>],
      [kind |-> "tensor", type |-> "kTfLiteInt32", dims |-> <<1, 1, 2>>, data |-> <<200, 33>>],
      [kind |-> "tensor", type |-> "kTfLiteUInt8", dims |-> <<1, 2>>, data |-> <<7, 9>>] }

\* interpreter_->outputs() and output_tensor(0): no output, a null tensor, or a tensor.
NoOutput(kind) == [kind |-> kind, type |-> "", dims |-> <<>>, data |-> <<>>]

Outputs == {NoOutput("none"), NoOutput("nulltensor")} \cup OutTensors

Prod_decodeOutput(s, out) ==
    IF s.interpreter_ = "nullptr" \/ out.kind = "none" THEN "Error: No output tensors"
    ELSE IF out.kind = "nulltensor" THEN "Error: Failed to get output tensor"
    ELSE IF out.type = "kTfLiteFloat32"
    THEN LET rank == Len(out.dims) IN
         IF rank = 3 /\ out.dims[1] >= 1 /\ out.dims[2] >= 1 /\ out.dims[3] > 0
         THEN LET v      == out.dims[3]
                  offset == (out.dims[2] - 1) * v
                  best   == ArgMaxScan(out.data, offset, v, 1, 0) IN
              "TensorFlow Lite response (next token " \o ToString(best)
              \o ", score: " \o Fixed3(out.data[offset + best + 1]) \o ")"
         ELSE LET best_token == ArgMaxScan(out.data, 0, Len(out.data), 1, 0) IN
              "TensorFlow Lite response (token " \o ToString(best_token)
              \o ", score: " \o Fixed3(out.data[best_token + 1]) \o ")"
    ELSE IF out.type = "kTfLiteInt32"
    THEN "TensorFlow Lite response: " \o AsciiOf(out.data, 1, Min(Len(out.data), 10))
    ELSE "TensorFlow Lite response (unsupported output type: " \o out.type \o ")"

\* The (zero-based) indices of the first output tensor's data that
\* decodeOutput reads when the tensor holds bytes bytes.
Prod_decodeOutputReads(s, out, bytes) ==
    IF s.interpreter_ = "nullptr" \/ out.kind # "tensor" THEN {}
    ELSE IF out.type = "kTfLiteFloat32"
    THEN IF Len(out.dims) = 3 /\ out.dims[1] >= 1 /\ out.dims[2] >= 1 /\ out.dims[3] > 0
         THEN LET v == out.dims[3] IN { (out.dims[2] - 1) * v + i : i \in 0..(v - 1) }
         ELSE {0} \cup 1..(bytes \div 4 - 1)
    ELSE IF out.type = "kTfLiteInt32"
    THEN 0..(Min(bytes \div 4, 10) - 1)
    ELSE {}

\* interpreter_->inputs() and input_tensor(0): no input, a null tensor, or the
\* element type of the first input tensor.
Inputs == {"none", "nulltensor", "kTfLiteInt32", "kTfLiteFloat32", "kTfLiteUInt8"}

\* setInputTensor that accepts a first input tensor of any element type.
Prod_setInputTensor_AnyType(s, in) ==
    s.interpreter_ # "nullptr" /\ in \notin {"none", "nulltensor"}

Prod_setInputTensor(s, in) ==
    s.interpreter_ # "nullptr" /\ in \in {"kTfLiteInt32", "kTfLiteFloat32"}

\* What one production inference meets: an exception in the try block, the
\* first input tensor, the status of Invoke and the first output tensor.
ProdInferEnv ==
    [throws : BOOLEAN, in : Inputs, invokeOk : BOOLEAN, out : Outputs]

Prod_processInference(s, input_text, ie) ==
    IF ~s.initialized_ \/ s.interpreter_ = "nullptr"
    THEN "Error: Service not initialized"
    ELSE IF ie.throws THEN Prod_generateFallbackResponse(input_text)
    ELSE IF ~Prod_setInputTensor(s, ie.in) THEN Prod_generateFallbackResponse(input_text)
    ELSE IF ~ie.invokeOk THEN Prod_generateFallbackResponse(input_text)
    ELSE Prod_decodeOutput(s, ie.out)

\* Measured durations of the benchmark inference, in milliseconds.
Durations == {0, 250, 1000, 2500}

\* base_score * (1 - min(1, duration/1000) * 0.5), in thousandths.
Prod_getPerformanceScore_Unclamped(s, duration) ==
    IF ~s.initialized_ THEN 0
    ELSE LET base_score == IF s.gpu_delegate_ # "nullptr" THEN 800 ELSE 600
         IN  (base_score * (2000 - duration)) \div 2000

Prod_getPerformanceScore(s, duration) ==
    IF ~s.initialized_ THEN 0
    ELSE LET base_score   == IF s.gpu_delegate_ # "nullptr" THEN 800 ELSE 600
             time_penalty == Min(1000, duration)
             score        == (base_score * (2000 - time_penalty)) \div 2000
         IN  Min(1000, Max(0, score))

(***************************************************************************)
(* Text to tokens and tokens to the input tensor.  A text is the sequence  *)
(* of its bytes (0..255); signed says whether char is a signed type on the *)
(* target.                                                                 *)
(***************************************************************************)
\* static_cast<int32_t>(c) of a char holding byte b.
CharValue(b, signed) == IF signed /\ b >= 128 THEN b - 256 ELSE b

max_length == 512

max_tokens == 128

\* tokens.resize(n) where the vector is longer, tokens.resize(n, 0) where not.
ResizeTokens(tokens, n) ==
    IF Len(tokens) > n THEN SubSeq(tokens, 1, n)
    ELSE IF Len(tokens) = n THEN tokens
    ELSE tokens \o [i \in 1..(n - Len(tokens)) |-> 0]

\* The tokens pushed before the resize: BOS, the printable characters, EOS.
Mock_pushedTokens(input, signed) ==
    LET Printable(c) == c >= 32 /\ c <= 126
        chars == [i \in DOMAIN input |-> CharValue(input[i], signed)] IN
    << 1 >> \o SelectSeq(chars, Printable) \o << 2 >>

Mock_tokenizeInput(input, signed) ==
    ResizeTokens(Mock_pushedTokens(input, signed), max_length)

\* The tokens pushed before the resize: every character.
Prod_pushedTokens(input, signed) ==
    [i \in DOMAIN input |-> CharValue(input[i], signed)]

\* tokenizeInput that pads a short vector and leaves a long one as it is.
Prod_tokenizeInput_NoTruncate(input, signed) ==
    LET tokens == Prod_pushedTokens(input, signed) IN
    IF Len(tokens) >= max_tokens THEN tokens ELSE ResizeTokens(tokens, max_tokens)

Prod_tokenizeInput(input, signed) ==
    ResizeTokens(Prod_pushedTokens(input, signed), max_tokens)

TFLite_tokenizeInput(real, input, signed) ==
    IF real THEN Prod_tokenizeInput(input, signed) ELSE Mock_tokenizeInput(input, signed)

\* A 4-byte cell of memory: what was last stored in it.
Cell(type, value) == [type |-> type, value |-> value]

\* The memory at input_tensor->data after setInputTensor(tokens), and what
\* the call returns.  mem holds the cells from the start of the tensor's data
\* on: the tensor's own bytes / 4 cells, then memory that is not the tensor's.
\* in is the element type of the first input tensor (see Inputs).
Prod_setInputTensor_Unbounded(s, in, tokens, bytes, mem) ==
    IF s.interpreter_ = "nullptr" \/ in \in {"none", "nulltensor"}
    THEN [mem |-> mem, ret |-> FALSE]
    ELSE IF in \in {"kTfLiteInt32", "kTfLiteFloat32"}
    THEN [mem |-> [i \in DOMAIN mem |->
                     IF i <= Len(tokens)
                     THEN Cell(IF in = "kTfLiteInt32" THEN "int32" ELSE "float", tokens[i])
                     ELSE mem[i]],
          ret |-> TRUE]
    ELSE [mem |-> mem, ret |-> FALSE]

Prod_setInputTensorData(s, in, tokens, bytes, mem) ==
    IF s.interpreter_ = "nullptr" \/ in \in {"none", "nulltensor"}
    THEN [mem |-> mem, ret |-> FALSE]
    ELSE IF in = "kTfLiteInt32"
    THEN LET copied == Min(Len(tokens) * 4, bytes) IN
         [mem |-> [i \in DOMAIN mem |->
                     IF i * 4 <= copied THEN Cell("int32", tokens[i]) ELSE mem[i]],
          ret |-> TRUE]
    ELSE IF in = "kTfLiteFloat32"
    THEN [mem |-> [i \in DOMAIN mem |->
                     IF i - 1 < Len(tokens) /\ i - 1 < bytes \div 4
                     THEN Cell("float", tokens[i]) ELSE mem[i]],
          ret |-> TRUE]
    ELSE [mem |-> mem, ret |-> FALSE]

(***************************************************************************)
(* TFLiteGPUService as the build links it.                                 *)
(***************************************************************************)
TFLiteGPUService(real) ==
    IF real THEN Prod_TFLiteGPUService ELSE Mock_TFLiteGPUService

TFLite_initialize(real, s, model_path, e) ==
    IF real THEN Prod_initialize(s, model_path, e) ELSE Mock_initialize(s, model_path, e)

TFLite_initializeWithAssets(real, s, asset_manager, e) ==
    IF real THEN Prod_initializeWithAssets(s, asset_manager, e)
    ELSE Mock_initializeWithAssets(s, asset_manager, e)

TFLite_processInference(real, s, input_text, ie) ==
    IF real THEN Prod_processInference(s, input_text, ie)
    ELSE Mock_processInference(s, input_text, ie)

TFLite_cleanup(real, s) == IF real THEN Prod_cleanup(s) ELSE Mock_cleanup(s)

\* The environments below leave out the draws a call never reads: of two
\* environments that differ only in a field the call does not reach, one is kept.
InferEnv(real) ==
    IF real
    THEN {ie \in ProdInferEnv :
            /\ ie.throws => ie.in = "kTfLiteInt32"
            /\ (ie.throws \/ ie.in \notin {"kTfLiteInt32", "kTfLiteFloat32"})
                    => ie.invokeOk
            /\ (ie.throws \/ ie.in \notin {"kTfLiteInt32", "kTfLiteFloat32"}
                    \/ ~ie.invokeOk) => ie.out = NoOutput("none")}
    ELSE {ie \in MockInferEnv : ie.throws => (ie.tmpl = 1 /\ ie.cont = 1 /\ ie.variation = 0)}

FileInitEnv(real) ==
    IF real
    THEN {e \in InitEnv :
            (e.throws \/ ~e.fileOk) => (e.delegateOk /\ e.build = "ok" /\ ~(e.throws /\ ~e.fileOk))}
    ELSE {e \in InitEnv : e.fileOk /\ e.delegateOk /\ e.build = "ok"}

AssetInitEnv(real) ==
    IF real
    THEN {e \in InitEnv : e.fileOk /\ (e.throws => (e.delegateOk /\ e.build = "ok"))}
    ELSE {e \in InitEnv : e.fileOk /\ e.delegateOk /\ e.build = "ok"}

\* What getPerformanceScore meets: the measured duration of its benchmark
\* inference (production) or its random draw (mock).
ScoreEnv(real) == IF real THEN Durations ELSE Variations

TFLite_getPerformanceScore(real, s, se) ==
    IF real THEN Prod_getPerformanceScore(s, se) ELSE Mock_getPerformanceScore(s, se)

(***************************************************************************)
(* What a call does inside the GPU adapter, besides its result.            *)
(***************************************************************************)
\* The resources cleanup releases, in the order of its statements.  truthy is
\* what  if (model_)  reads when the mock's model_ was never assigned.
Mock_releases(s, truthy) ==
    IF ~s.initialized_ THEN <<>>
    ELSE (IF s.interpreter_ # "nullptr" THEN << "interpreter_" >> ELSE <<>>)
         \o (IF s.gpu_delegate_ # "nullptr" THEN << "gpu_delegate_" >> ELSE <<>>)
         \o (IF s.model_ = "ptr" \/ (s.model_ = "indeterminate" /\ truthy)
             THEN << "model_" >> ELSE <<>>)

Prod_releases(s) ==
    IF ~s.initialized_ THEN <<>>
    ELSE (IF s.gpu_delegate_ # "nullptr" THEN << "gpu_delegate_" >> ELSE <<>>)
         \o (IF s.interpreter_ # "nullptr" THEN << "interpreter_" >> ELSE <<>>)
         \o (IF s.model_ # "nullptr" THEN << "model_" >> ELSE <<>>)
         \o (IF s.model_buffer_ # "" THEN << "model_buffer_" >> ELSE <<>>)

TFLite_releases(real, s, truthy) ==
    IF real THEN Prod_releases(s) ELSE Mock_releases(s, truthy)

\* The functions a function of the adapter calls, in order, on object s when
\* the engine behaves as ie says; an exception is raised by the first engine
\* step of processInference.
Mock_Callees_Recursive(fn, s, ie) ==
    CASE fn = "processInference" ->
            IF ~s.initialized_ THEN <<>>
            ELSE IF ~s.model_loaded_ THEN << "generateFallbackResponse" >>
            ELSE << "tokenizeInput", "setInputTensor", "decodeOutput" >>
      [] fn = "generateFallbackResponse" -> << "isGPUAvailable", "getPerformanceScore" >>
      [] fn = "getPerformanceScore" ->
            IF s.initialized_ THEN << "processInference" >> ELSE <<>>
      [] OTHER -> <<>>

Mock_Callees(fn, s, ie) ==
    CASE fn = "processInference" ->
            IF ~s.initialized_ THEN <<>>
            ELSE IF ~s.model_loaded_ THEN << "generateFallbackResponse" >>
            ELSE IF ie.throws THEN << "tokenizeInput" >>
            ELSE IF ~Mock_setInputTensor(s) THEN << "tokenizeInput", "setInputTensor" >>
            ELSE << "tokenizeInput", "setInputTensor", "decodeOutput" >>
      [] fn = "generateFallbackResponse" -> << "isGPUAvailable", "getPerformanceScore" >>
      [] fn = "warmUpModel" ->
            IF s.model_loaded_ THEN << "processInference" >> ELSE <<>>
      [] OTHER -> <<>>

Prod_Callees(fn, s, ie) ==
    CASE fn = "getPerformanceScore" ->
            IF ~s.initialized_ THEN <<>> ELSE << "processInference" >>
      [] fn = "processInference" ->
            IF ~s.initialized_ \/ s.interpreter_ = "nullptr" THEN <<>>
            ELSE IF ie.throws THEN << "tokenizeInput", "generateFallbackResponse" >>
            ELSE IF ~Prod_setInputTensor(s, ie.in)
            THEN << "tokenizeInput", "setInputTensor", "generateFallbackResponse" >>
            ELSE IF ~ie.invokeOk
            THEN << "tokenizeInput", "setInputTensor", "Invoke",
                    "generateFallbackResponse" >>
            ELSE << "tokenizeInput", "setInputTensor", "Invoke", "decodeOutput" >>
      [] OTHER -> <<>>

\* getBackendInfoNative asks the active adapter for its score.
Callees(real, fn, s, ie) ==
    IF fn = "getBackendInfoNative" THEN << "getPerformanceScore" >>
    ELSE IF real THEN Prod_Callees(fn, s, ie) ELSE Mock_Callees(fn, s, ie)

\* Call stacks are followed to this depth and no further.
MaxCallDepth == 8

\* Every call stack the execution that has reached stack goes through.
RECURSIVE Stacks(_, _, _, _)
Stacks(real, stack, s, ie) ==
    IF Len(stack) >= MaxCallDepth THEN {stack}
    ELSE LET cs == Callees(real, stack[Len(stack)], s, ie) IN
         {stack} \cup UNION { Stacks(real, Append(stack, cs[i]), s, ie) : i \in DOMAIN cs }

\* Texts handed to the adapter: empty, short, longer than both excerpt limits
\* (50 and 100 characters), and not ASCII.
RECURSIVE Rep(_, _)
Rep(str, n) == IF n = 0 THEN "" ELSE str \o Rep(str, n - 1)

LongText == Rep("0123456789", 10) \o "x"

AdapterTexts == {"", "hi", LongText, "héllo"}

AdapterPaths == {"/data/model.tflite", MockCandidates[1]}

(***************************************************************************)
(* The orchestrator (mobile_ai_jni_bridge.cpp).  g holds the four globals; *)
(* a handler yields the globals after the call, the value returned to the  *)
(* caller, the adapter methods it invoked in order, and (processInference) *)
(* the text the adapter gave back.                                         *)
(***************************************************************************)
Globals(init, backend, tflite, onnx) ==
    [is_initialized |-> init, active_backend |-> backend,
     tflite_service |-> tflite, onnx_service |-> onnx]

Call(obj, fn, ret) == [obj |-> obj, fn |-> fn, ret |-> ret]

\* Lines 57-71: a fresh TFLiteGPUService replaces the held one and is tried.
TryTFLite(real, g, path, e) ==
    LET r == TFLite_initialize(real, TFLiteGPUService(real), path, e) IN
    IF r.ret
    THEN [g |-> [g EXCEPT !.tflite_service = <<r.svc>>,
                          !.active_backend = "tflite_gpu"],
          success |-> TRUE,
          calls |-> << Call("tflite", "initialize", "true"),
                       Call("tflite", "getPerformanceScore", "logged") >>]
    ELSE [g |-> [g EXCEPT !.tflite_service = Null],
          success |-> FALSE,
          calls |-> << Call("tflite", "initialize", "false") >>]

\* Lines 76-86: a fresh ONNXMobileService replaces the held one and is tried;
\* isNNAPIAvailable is evaluated only when initialize returned true (&&).
AttemptONNX(st, path, throws) ==
    LET r == ONNX_initialize(ONNXMobileService, path, throws) IN
    IF r.ret /\ isNNAPIAvailable(r.svc)
    THEN [g |-> [st.g EXCEPT !.onnx_service = <<r.svc>>,
                             !.active_backend = "onnx_mobile"],
          success |-> TRUE,
          calls |-> st.calls \o << Call("onnx", "initialize", "true"),
                                   Call("onnx", "isNNAPIAvailable", "true") >>]
    ELSE [g |-> [st.g EXCEPT !.onnx_service = Null],
          success |-> st.success,
          calls |-> st.calls \o
                    (IF r.ret
                     THEN << Call("onnx", "initialize", "true"),
                             Call("onnx", "isNNAPIAvailable", "false") >>
                     ELSE << Call("onnx", "initialize", "false") >>)]

\* Lines 73-88: the fallback is tried only if (!success).
TryONNX_NoGate(st, path, throws) ==
    IF st.success THEN st
    ELSE LET r == ONNX_initialize(ONNXMobileService, path, throws) IN
         [g |-> [st.g EXCEPT !.onnx_service = <<r.svc>>,
                             !.active_backend = "onnx_mobile"],
          success |-> TRUE,
          calls |-> st.calls \o << Call("onnx", "initialize", B2S(r.ret)) >>]

TryONNX_Always(st, path, throws) == AttemptONNX(st, path, throws)

TryONNX(st, path, throws) ==
    IF st.success THEN st ELSE AttemptONNX(st, path, throws)

\* Lines 90-97 and 144-151.
FinishInitialize_KeepFlag(st) ==
    [g |-> st.g, ret |-> B2S(st.success), calls |-> st.calls, result |-> ""]

FinishInitialize(st) ==
    [g |-> IF st.success THEN [st.g EXCEPT !.is_initialized = TRUE] ELSE st.g,
     ret |-> B2S(st.success), calls |-> st.calls, result |-> ""]

initializeNativeCall(real, g, path, e, throws) ==
    FinishInitialize(TryONNX(TryTFLite(real, g, path, e), path, throws))

\* Lines 118-134.
TryTFLiteAssets(real, g, asset_manager, e) ==
    LET r == TFLite_initializeWithAssets(real, TFLiteGPUService(real),
                                         asset_manager, e) IN
    IF r.ret
    THEN [g |-> [g EXCEPT !.tflite_service = <<r.svc>>,
                          !.active_backend = "tflite_gpu"],
          success |-> TRUE,
          calls |-> << Call("tflite", "initializeWithAssets", "true"),
                       Call("tflite", "getPerformanceScore", "logged"),
                       Call("tflite", "isGPUAvailable", "logged") >>]
    ELSE [g |-> [g EXCEPT !.tflite_service = Null],
          success |-> FALSE,
          calls |-> << Call("tflite", "initializeWithAssets", "false") >>]

\* Lines 136-142: the fallback has no asset path; the block only logs.
TryONNXAssets_Fallback(st) == TryONNX(st, "", FALSE)

TryONNXAssets(st) == st

initializeWithAssetsNativeCall(real, g, asset_manager, e) ==
    IF asset_manager = Null
    THEN [g |-> g, ret |-> "false", calls |-> <<>>, result |-> ""]
    ELSE FinishInitialize(TryONNXAssets(TryTFLiteAssets(real, g, asset_manager, e)))

\* Lines 170-182: the adapter named by active_backend, if held, is asked.
RouteInference(real, g, input, ie, throws) ==
    LET viaTFLite == g.active_backend = "tflite_gpu" /\ g.tflite_service # Null
        viaONNX   == g.active_backend = "onnx_mobile" /\ g.onnx_service # Null
        r1 == IF viaTFLite
              THEN TFLite_processInference(real, g.tflite_service[1], input, ie)
              ELSE ""
        r2 == IF viaONNX
              THEN ONNX_processInference(g.onnx_service[1], input, throws)
              ELSE r1
    IN  [result |-> r2,
         calls |-> (IF viaTFLite THEN << Call("tflite", "processInference", r1) >>
                    ELSE <<>>)
                   \o (IF viaONNX THEN << Call("onnx", "processInference", r2) >>
                       ELSE <<>>)]

\* Lines 157-190.
processInferenceNative_NoSentinel(real, g, input, ie, throws) ==
    IF ~g.is_initialized
    THEN [g |-> g, ret |-> "Error: Service not initialized", calls |-> <<>>,
          result |-> ""]
    ELSE LET r == RouteInference(real, g, input, ie, throws) IN
         [g |-> g, ret |-> r.result, calls |-> r.calls, result |-> r.result]

processInferenceNative_Reselect(real, g, input, ie, throws) ==
    IF ~g.is_initialized
    THEN [g |-> g, ret |-> "Error: Service not initialized", calls |-> <<>>,
          result |-> ""]
    ELSE LET r == RouteInference(real, g, input, ie, throws) IN
         [g |-> IF r.result = ""
                THEN [g EXCEPT !.is_initialized = FALSE, !.active_backend = "none"]
                ELSE g,
          ret |-> IF r.result = "" THEN "Error: No active backend available"
                  ELSE r.result,
          calls |-> r.calls, result |-> r.result]

processInferenceNativeCall(real, g, input, ie, throws) ==
    IF ~g.is_initialized
    THEN [g |-> g, ret |-> "Error: Service not initialized", calls |-> <<>>,
          result |-> ""]
    ELSE LET r == RouteInference(real, g, input, ie, throws) IN
         [g |-> g,
          ret |-> IF r.result = "" THEN "Error: No active backend available"
                  ELSE r.result,
          calls |-> r.calls, result |-> r.result]

\* (int)(score * 100) of a score in thousandths.
Percent(score) == ToString(score \div 10)

\* Lines 195-223.
getBackendInfoNativeCall(real, g, se) ==
    IF ~g.is_initialized
    THEN [g |-> g, ret |-> "Backend: Not initialized", calls |-> <<>>, result |-> ""]
    ELSE LET viaTFLite == g.active_backend = "tflite_gpu" /\ g.tflite_service # Null
             viaONNX   == g.active_backend = "onnx_mobile" /\ g.onnx_service # Null
             info0 == "Backend: " \o g.active_backend
                      \o (IF real THEN " [native]" ELSE "")
             s1 == IF viaTFLite
                   THEN TFLite_getPerformanceScore(real, g.tflite_service[1], se)
                   ELSE 0
             info1 == IF viaTFLite
                      THEN info0 \o " (Performance: " \o Percent(s1) \o "% of QNN)"
                      ELSE info0
             s2 == IF viaONNX THEN ONNX_getPerformanceScore(g.onnx_service[1]) ELSE 0
             info2 == IF viaONNX
                      THEN info1 \o " (Performance: " \o Percent(s2) \o "% of QNN)"
                      ELSE info1
         IN  [g |-> g, ret |-> info2,
              calls |-> (IF viaTFLite
                         THEN << Call("tflite", "getPerformanceScore", Percent(s1)) >>
                         ELSE <<>>)
                        \o (IF viaONNX
                            THEN << Call("onnx", "getPerformanceScore", Percent(s2)) >>
                            ELSE <<>>),
              result |-> ""]

\* Lines 228-252.
cleanupNative_KeepFlags(real, g) ==
    [g |-> [g EXCEPT !.tflite_service = Null, !.onnx_service = Null],
     ret |-> "void",
     calls |-> (IF g.tflite_service # Null
                THEN << Call("tflite", "cleanup", "void") >> ELSE <<>>)
               \o (IF g.onnx_service # Null
                   THEN << Call("onnx", "cleanup", "void") >> ELSE <<>>),
     result |-> ""]

cleanupNative_OnlyIfHeld(real, g) ==
    IF g.tflite_service = Null /\ g.onnx_service = Null
    THEN [g |-> g, ret |-> "void", calls |-> <<>>, result |-> ""]
    ELSE [g |-> Globals(FALSE, "none", Null, Null), ret |-> "void",
          calls |-> (IF g.tflite_service # Null
                     THEN << Call("tflite", "cleanup", "void") >> ELSE <<>>)
                    \o (IF g.onnx_service # Null
                        THEN << Call("onnx", "cleanup", "void") >> ELSE <<>>),
          result |-> ""]

cleanupNativeCall(real, g) ==
    [g |-> [g EXCEPT !.tflite_service = Null, !.onnx_service = Null,
                     !.is_initialized = FALSE, !.active_backend = "none"],
     ret |-> "void",
     calls |-> (IF g.tflite_service # Null
                THEN << Call("tflite", "cleanup", "void") >> ELSE <<>>)
               \o (IF g.onnx_service # Null
                   THEN << Call("onnx", "cleanup", "void") >> ELSE <<>>),
     result |-> ""]

(***************************************************************************)
(* The state machine: one action per JNI entry point, called one at a time *)
(* by the host application.                                                *)
(***************************************************************************)
Current == Globals(is_initialized, active_backend, tflite_service, onnx_service)

\* What a caller can tell of the globals: the two flags and which adapter
\* instances are held.
Lifecycle(g) ==
    [is_initialized |-> g.is_initialized, active_backend |-> g.active_backend,
     tflite_held |-> g.tflite_service # Null, onnx_held |-> g.onnx_service # Null]

\* The record of a call made directly on an adapter object: the method, its
\* argument, what it returned (a bool or text as a string, a score in
\* thousandths), the object before the call, and what the call did inside:
\* the candidates it opened, the resources it released in order, the call
\* stacks it went through, and whether an exception left the method.
AdapterCall(op, arg, ret, score, pre, opened, releases, stacks, env) ==
    [op |-> op, arg |-> arg, ret |-> ret, score |-> score, pre |-> pre,
     opened |-> opened, releases |-> releases, stacks |-> stacks, env |-> env]

NoEnv == [throws |-> FALSE]

NoCall(s) == AdapterCall("none", "", "", 0, s, <<>>, <<>>, {}, NoEnv)

\* No JNI call is in flight on a second thread.  A thread in
\* processInferenceNative holds its input, its result so far and what it met
\* when it called into an adapter; a thread in cleanupNative its position.
NoThreads ==
    [inference |-> [pc |-> "idle", input |-> "", result |-> "", entered |-> "none"],
     cleanup   |-> [pc |-> "idle"]]

Init ==
    /\ real_tflite \in BOOLEAN
    /\ adapter = TFLiteGPUService(real_tflite)
    /\ onnx_adapter = ONNXMobileService
    /\ call = NoCall(adapter)
    /\ is_initialized = FALSE
    /\ active_backend = "none"
    /\ tflite_service = Null
    /\ onnx_service = Null
    /\ last = [op |-> "none", arg |-> "", ret |-> "", calls |-> <<>>,
               result |-> "", pre |-> Lifecycle(Globals(FALSE, "none", Null, Null)),
               was_cleaned_up |-> FALSE]
    /\ cleaned_up = FALSE
    /\ threads = NoThreads

Apply(op, arg, r) ==
    /\ is_initialized' = r.g.is_initialized
    /\ active_backend' = r.g.active_backend
    /\ tflite_service' = r.g.tflite_service
    /\ onnx_service' = r.g.onnx_service
    /\ last' = [op |-> op, arg |-> arg, ret |-> r.ret, calls |-> r.calls,
                result |-> r.result, pre |-> Lifecycle(Current),
                was_cleaned_up |-> cleaned_up]
    /\ cleaned_up' = IF op = "cleanup" THEN TRUE
                     ELSE IF op \in {"initialize", "initializeWithAssets"} /\ r.ret = "true"
                     THEN FALSE
                     ELSE cleaned_up
    /\ UNCHANGED <<real_tflite, adapter, onnx_adapter, call, threads>>

\* Of the draws of one processInference call, those of the adapter that is not
\* asked are fixed: ie belongs to the TFLite adapter, throws to the ONNX adapter.
RelevantDraw(g, ie, throws) ==
    /\ (g.active_backend # "onnx_mobile" \/ g.onnx_service = Null) => ~throws
    /\ (g.active_backend # "tflite_gpu" \/ g.tflite_service = Null)
            => ie = CHOOSE x \in InferEnv(real_tflite) : x.throws

initializeNative ==
    \E path \in Paths, e \in FileInitEnv(real_tflite), throws \in BOOLEAN :
        Apply("initialize", path,
              initializeNativeCall(real_tflite, Current, path, e, throws))

initializeWithAssetsNative ==
    \E am \in AssetManagers, e \in AssetInitEnv(real_tflite) :
        Apply("initializeWithAssets", IF am = Null THEN "null" ELSE "assets",
              initializeWithAssetsNativeCall(real_tflite, Current, am, e))

processInferenceNative ==
    \E input \in Texts, ie \in InferEnv(real_tflite), throws \in BOOLEAN :
        /\ RelevantDraw(Current, ie, throws)
        /\ Apply("processInference", input,
                 processInferenceNativeCall(real_tflite, Current, input, ie, throws))

getBackendInfoNative ==
    \E se \in ScoreEnv(real_tflite) :
        Apply("getBackendInfo", "", getBackendInfoNativeCall(real_tflite, Current, se))

cleanupNative ==
    Apply("cleanup", "", cleanupNativeCall(real_tflite, Current))

Next ==
    \/ initializeNative
    \/ initializeWithAssetsNative
    \/ processInferenceNative
    \/ getBackendInfoNative
    \/ cleanupNative

Spec == Init /\ [][Next]_vars

(***************************************************************************)
(* Properties of the orchestrator.                                         *)
(***************************************************************************)
Called(obj, fn) ==
    \E i \in DOMAIN last.calls : last.calls[i].obj = obj /\ last.calls[i].fn = fn

CalledRet(obj, fn, ret) ==
    \E i \in DOMAIN last.calls :
        last.calls[i] = Call(obj, fn, ret)

CalledOn(obj) == \E i \in DOMAIN last.calls : last.calls[i].obj = obj

NotInitializedSentinel == "Error: Service not initialized"

NoBackendSentinel == "Error: No active backend available"

\* C1: in initialize(modelPath), whenever the GPU adapter's initialize returns
\* true, the call returns true with tflite_gpu active and the fallback adapter
\* is not touched in that call.
C1_PriorityOrder ==
    (last.op = "initialize" /\ CalledRet("tflite", "initialize", "true"))
        => /\ active_backend = "tflite_gpu"
           /\ is_initialized
           /\ last.ret = "true"
           /\ ~CalledOn("onnx")
           /\ (onnx_service # Null) = last.pre.onnx_held

C1_Witness ==
    /\ last.op = "initialize"
    /\ CalledRet("tflite", "initialize", "true")
    /\ last.pre.active_backend = "onnx_mobile"

\* C2: in initialize(modelPath), when the GPU adapter's initialize returns
\* false, the call activates the fallback (returns true with onnx_mobile
\* active and its instance held) exactly when the fallback's initialize and
\* then its isNNAPIAvailable both returned true; the GPU adapter is activated
\* on its initialize result alone, with no capability check.
C2_FallbackGate ==
    last.op = "initialize"
        => /\ CalledRet("tflite", "initialize", "false")
                => ( (last.ret = "true" /\ active_backend = "onnx_mobile"
                        /\ onnx_service # Null)
                     <=> (CalledRet("onnx", "initialize", "true")
                            /\ CalledRet("onnx", "isNNAPIAvailable", "true")) )
           /\ CalledRet("tflite", "initialize", "true")
                => (active_backend = "tflite_gpu" /\ ~Called("tflite", "isGPUAvailable"))
           /\ Called("onnx", "isNNAPIAvailable") => CalledRet("onnx", "initialize", "true")

C2_Witness ==
    /\ last.op = "initialize"
    /\ CalledRet("tflite", "initialize", "false")
    /\ CalledRet("onnx", "isNNAPIAvailable", "true")
    /\ active_backend = "onnx_mobile"

C2_WitnessRefused ==
    /\ last.op = "initialize"
    /\ CalledRet("tflite", "initialize", "false")
    /\ CalledRet("onnx", "initialize", "false")
    /\ last.ret = "false"

\* C3: an initialize(modelPath) call in which no candidate succeeds returns
\* false and leaves the orchestrator uninitialized with no active backend.
C3_FailedInitializeUninitialized ==
    (last.op = "initialize" /\ last.ret = "false")
        => (~is_initialized /\ active_backend = "none")

\* C4: after cleanup and until an initialize call returns true, every
\* processInference returns the not-initialized sentinel and invokes no
\* adapter method; no adapter instance is held in that span.
C4_AfterCleanup ==
    cleaned_up
        => /\ ~is_initialized
           /\ tflite_service = Null
           /\ onnx_service = Null
           /\ last.op = "processInference"
                => (last.ret = NotInitializedSentinel /\ last.calls = <<>>)

C4_Witness ==
    cleaned_up /\ last.op = "processInference" /\ last.was_cleaned_up

\* C5: cleanup is idempotent.  From every reachable state one cleanup yields
\* the uninitialized state (is_initialized false, active backend none, no
\* adapter held) and a second cleanup yields that same state; a cleanup that
\* ran on an uninitialized orchestrator changed nothing and called no adapter.
C5_CleanupIdempotent ==
    LET once  == cleanupNativeCall(real_tflite, Current)
        twice == cleanupNativeCall(real_tflite, once.g) IN
    /\ once.g = Globals(FALSE, "none", Null, Null)
    /\ twice.g = once.g
    /\ twice.calls = <<>>
    /\ ~is_initialized => (once.g = Current /\ once.calls = <<>>)
    /\ last.op = "cleanup"
            => /\ Current = Globals(FALSE, "none", Null, Null)
               /\ last.ret = "void"
               /\ ~last.pre.is_initialized
                    => (Lifecycle(Current) = last.pre /\ last.calls = <<>>)

C5_Witness ==
    last.op = "cleanup" /\ last.was_cleaned_up /\ ~last.pre.is_initialized

\* C6: while initialized, each processInference invokes processInference on
\* the adapter named by the active backend, and on no other adapter, and
\* returns that adapter's result verbatim when it is non-empty.
ActiveAdapter == IF active_backend = "tflite_gpu" THEN "tflite" ELSE "onnx"

C6_RoutedToActive ==
    (last.op = "processInference" /\ last.pre.is_initialized)
        => /\ last.calls = << Call(ActiveAdapter, "processInference", last.result) >>
           /\ last.result # "" => last.ret = last.result

\* C7: processInference never returns an empty string; when the orchestrator
\* is initialized and the routed result is empty, the returned text is the
\* sentinel "Error: No active backend available".
C7_NeverEmpty ==
    last.op = "processInference"
        => /\ last.ret # ""
           /\ (last.pre.is_initialized /\ last.result = "")
                => last.ret = NoBackendSentinel
           /\ ~last.pre.is_initialized => last.ret = NotInitializedSentinel

C7_Witness ==
    last.op = "processInference" /\ last.pre.is_initialized /\ last.result = ""

\* C8: processInference and getBackendInfo leave is_initialized, the active
\* backend and both adapter instances as they were, whatever the adapter returns.
C8_ReadOnly ==
    [][ last'.op \in {"processInference", "getBackendInfo"}
            => /\ is_initialized' = is_initialized
               /\ active_backend' = active_backend
               /\ tflite_service' = tflite_service
               /\ onnx_service' = onnx_service ]_vars

C8_Witness ==
    /\ last.op \in {"processInference", "getBackendInfo"}
    /\ last.pre.is_initialized
    /\ last.calls = <<>>

\* C9: is_initialized is false exactly when active_backend is "none", and an
\* initialized orchestrator has tflite_gpu or onnx_mobile active.
C9_FlagsAgree ==
    /\ is_initialized <=> active_backend # "none"
    /\ active_backend \in {"none", "tflite_gpu", "onnx_mobile"}

C9_Witness ==
    /\ is_initialized
    /\ active_backend = "onnx_mobile"
    /\ last.op \in {"initialize", "initializeWithAssets"}
    /\ last.ret = "false"

\* C10: initializeWithAssets never touches the fallback adapter: afterwards
\* the active backend is tflite_gpu, set by this call on the GPU adapter's
\* initializeWithAssets returning true, or it is what it was before; the call
\* returns true only when the GPU adapter's initializeWithAssets returned true.
C10_AssetsNeverFallback ==
    last.op = "initializeWithAssets"
        => /\ ~CalledOn("onnx")
           /\ (onnx_service # Null) = last.pre.onnx_held
           /\ \/ ( active_backend = "tflite_gpu"
                   /\ CalledRet("tflite", "initializeWithAssets", "true") )
              \/ active_backend = last.pre.active_backend
           /\ last.ret = "true" <=> CalledRet("tflite", "initializeWithAssets", "true")
           /\ active_backend = "onnx_mobile" => last.pre.active_backend = "onnx_mobile"

C10_Witness ==
    /\ last.op = "initializeWithAssets"
    /\ CalledRet("tflite", "initializeWithAssets", "false")
    /\ active_backend = "onnx_mobile"


(***************************************************************************)
(* The adapters driven directly: one action per public method of           *)
(* TFLiteGPUService and of ONNXMobileService, called one at a time, in any *)
(* order, on an object that starts as its constructor leaves it.           *)
(***************************************************************************)
AdapterInit ==
    /\ real_tflite \in BOOLEAN
    /\ is_initialized = FALSE
    /\ active_backend = "none"
    /\ tflite_service = Null
    /\ onnx_service = Null
    /\ last = [op |-> "none", arg |-> "", ret |-> "", calls |-> <<>>,
               result |-> "", pre |-> Lifecycle(Globals(FALSE, "none", Null, Null)),
               was_cleaned_up |-> FALSE]
    /\ cleaned_up = FALSE
    /\ threads = NoThreads
    /\ adapter = TFLiteGPUService(real_tflite)
    /\ onnx_adapter = ONNXMobileService
    /\ call = NoCall(adapter)

Orchestrator == <<is_initialized, active_backend, tflite_service, onnx_service,
                  last, cleaned_up, threads>>

\* A call on the TFLiteGPUService object; the caller has taken the result of
\* its previous call.  The two objects share nothing: a run drives one of them.
OnTFLite(svc, c) ==
    /\ call.op = "none"
    /\ onnx_adapter = ONNXMobileService
    /\ adapter' = svc
    /\ call' = c
    /\ UNCHANGED <<real_tflite, onnx_adapter, Orchestrator>>

\* A call on the ONNXMobileService object.
OnONNX(svc, c) ==
    /\ call.op = "none"
    /\ adapter = TFLiteGPUService(real_tflite)
    /\ onnx_adapter' = svc
    /\ call' = c
    /\ UNCHANGED <<real_tflite, adapter, Orchestrator>>

\* The caller takes the result of the call and is free to make the next one.
takeResult ==
    /\ call.op # "none"
    /\ call' = NoCall(adapter)
    /\ UNCHANGED <<real_tflite, adapter, onnx_adapter, Orchestrator>>

\* The draw of an inference that does not reach the engine is fixed.
AnyInferEnv(real) ==
    IF real
    THEN [throws |-> TRUE, in |-> "kTfLiteInt32", invokeOk |-> TRUE,
          out |-> NoOutput("none")]
    ELSE [throws |-> TRUE, tmpl |-> 1, cont |-> 1, variation |-> 0]

\* The asset stores handed to the adapter: no candidate present, the first
\* candidate unusable in each way with and without a usable last one, and a
\* usable first candidate.
AdapterAssetManagers ==
    {Null} \cup { << StoreOf(a, "ok") >> : a \in AssetStatus }
           \cup { << StoreOf(a, "missing") >> : a \in {"missing", "shortread"} }

\* Of the draws of one inference, those the call reads: the template and the
\* continuation only when the mock decodes, its score draw only when it
\* answers in fallback mode; what is decoded does not depend on the text, so
\* the decoded outputs are drawn for one text.
AdapterInferEnv(real, s, input) ==
    IF ~s.initialized_ THEN {AnyInferEnv(real)}
    ELSE IF real
    THEN {ie \in InferEnv(real) : input # "hi" => ie.out.kind # "tensor"}
    ELSE {ie \in InferEnv(real) :
            /\ (~s.model_loaded_ \/ input # "hi") => (ie.tmpl = 1 /\ ie.cont = 1)
            /\ s.model_loaded_ => ie.variation = 0}

\* Of the draws of the benchmark inference, those the score call reads.
BenchmarkEnv(real, s) ==
    IF ~real \/ ~s.initialized_ THEN {AnyInferEnv(real)}
    ELSE {ie \in InferEnv(real) :
            /\ ie.out.kind = "none"
            /\ ie.in \in {"nulltensor", "kTfLiteInt32"}}

tfliteInitialize ==
    \E path \in AdapterPaths, e \in FileInitEnv(real_tflite) :
        LET r == TFLite_initialize(real_tflite, adapter, path, e) IN
        OnTFLite(r.svc, AdapterCall("initialize", path, B2S(r.ret), 0, adapter,
                                    <<>>, <<>>, {}, e))

\* The mock hands the manager to AAssetManager_open unchecked; it is given a
\* manager that exists.
tfliteInitializeWithAssets ==
    \E am \in AdapterAssetManagers, e \in AssetInitEnv(real_tflite) :
        /\ real_tflite \/ am # Null
        /\ LET r == TFLite_initializeWithAssets(real_tflite, adapter, am, e) IN
           OnTFLite(r.svc, AdapterCall("initializeWithAssets",
                                       IF am = Null THEN "null" ELSE "assets",
                                       B2S(r.ret), 0, adapter, r.opened, <<>>, {}, e))

tfliteProcessInference ==
    \E input \in AdapterTexts :
      \E ie \in AdapterInferEnv(real_tflite, adapter, input) :
        /\ OnTFLite(adapter,
                    AdapterCall("processInference", input,
                                TFLite_processInference(real_tflite, adapter, input, ie),
                                0, adapter, <<>>, <<>>,
                                Stacks(real_tflite, << "processInference" >>, adapter, ie),
                                ie))

\* Only the mock build defines isGPUAvailable.
tfliteIsGPUAvailable ==
    /\ ~real_tflite
    /\ OnTFLite(adapter,
                AdapterCall("isGPUAvailable", "", B2S(Mock_isGPUAvailable(adapter)),
                            0, adapter, <<>>, <<>>, {}, NoEnv))

\* se is the draw or the measured time of the score; ie is what the benchmark
\* inference of the production build meets.
tfliteGetPerformanceScore ==
    \E se \in ScoreEnv(real_tflite), ie \in BenchmarkEnv(real_tflite, adapter) :
        /\ OnTFLite(adapter,
                    AdapterCall("getPerformanceScore", ToString(se), "",
                                TFLite_getPerformanceScore(real_tflite, adapter, se),
                                adapter, <<>>, <<>>,
                                Stacks(real_tflite, << "getPerformanceScore" >>, adapter, ie),
                                ie))

tfliteCleanup ==
    \E truthy \in BOOLEAN :
        /\ (adapter.model_ # "indeterminate" \/ ~adapter.initialized_) => truthy
        /\ OnTFLite(TFLite_cleanup(real_tflite, adapter),
                    AdapterCall("cleanup", "", "void", 0, adapter, <<>>,
                                TFLite_releases(real_tflite, adapter, truthy), {}, NoEnv))

onnxInitialize ==
    \E path \in {"/data/model.tflite"}, throws \in BOOLEAN :
        LET r == ONNX_initialize(onnx_adapter, path, throws) IN
        OnONNX(r.svc, AdapterCall("onnx.initialize", path, B2S(r.ret), 0,
                                  onnx_adapter, <<>>, <<>>, {}, [throws |-> throws]))

\* The exception of the try block is drawn only where the block is entered.
onnxProcessInference ==
    \E input \in Texts, throws \in BOOLEAN :
        /\ ~onnx_adapter.initialized_ => ~throws
        /\ OnONNX(onnx_adapter,
                  AdapterCall("onnx.processInference", input,
                              ONNX_processInference(onnx_adapter, input, throws),
                              0, onnx_adapter, <<>>, <<>>, {}, [throws |-> throws]))

onnxGetPerformanceScore ==
    OnONNX(onnx_adapter,
           AdapterCall("onnx.getPerformanceScore", "", "",
                       ONNX_getPerformanceScore(onnx_adapter), onnx_adapter,
                       <<>>, <<>>, {}, NoEnv))

onnxCleanup ==
    OnONNX(ONNX_cleanup(onnx_adapter),
           AdapterCall("onnx.cleanup", "", "void", 0, onnx_adapter, <<>>, <<>>, {}, NoEnv))

AdapterNext ==
    \/ tfliteInitialize
    \/ tfliteInitializeWithAssets
    \/ tfliteProcessInference
    \/ tfliteIsGPUAvailable
    \/ tfliteGetPerformanceScore
    \/ tfliteCleanup
    \/ onnxInitialize
    \/ onnxProcessInference
    \/ onnxGetPerformanceScore
    \/ onnxCleanup
    \/ takeResult

AdapterSpec == AdapterInit /\ [][AdapterNext]_vars
(***************************************************************************)
(* Properties of the GPU adapter and of the ONNX adapter.                  *)
(***************************************************************************)
\* The candidate list the linked build walks.
Candidates == IF real_tflite THEN ProdCandidates ELSE MockCandidates

\* What the engine made of the last initialize call: the model was loaded
\* (the file parsed; for the mock, which reads assets once a manager is set,
\* the named asset was there and read whole) and the interpreter was built.
LoadSucceeded ==
    /\ ~call.env.throws
    /\ IF real_tflite THEN call.env.fileOk
       ELSE \/ call.pre.asset_manager_ = Null
            \/ AssetStatusOf(call.pre.asset_manager_, call.arg)
                    \notin {"missing", "shortread"}

BuildSucceeded == real_tflite => call.env.build = "ok"

\* A call that runs the initialization: the production build answers true at
\* once on an adapter that is already initialized.
RunsInitialization == ~(real_tflite /\ call.pre.initialized_)

\* C11: initialize(path) returns true exactly when model loading and
\* interpreter building succeed, whether or not the GPU delegate was created
\* (without it the adapter is initialized with no delegate attached); when
\* loading or building fails it returns false and the call has not marked the
\* adapter initialized.
C11_DelegateNotFatal ==
    (call.op = "initialize" /\ RunsInitialization)
        => /\ call.ret = "true" <=> (LoadSucceeded /\ BuildSucceeded)
           /\ call.ret = "true"
                => /\ adapter.initialized_
                   /\ adapter.gpu_delegate_ = "nullptr" <=> ~call.env.delegateOk
           /\ call.ret = "false" => (adapter.initialized_ => call.pre.initialized_)
           /\ (call.ret = "false" /\ real_tflite) => ~adapter.initialized_

C11_Witness ==
    /\ call.op = "initialize"
    /\ ~call.pre.initialized_
    /\ ~call.env.delegateOk
    /\ call.ret = "true"
    /\ adapter.initialized_
    /\ adapter.gpu_delegate_ = "nullptr"

C11_WitnessBuildFails ==
    /\ call.op = "initialize"
    /\ LoadSucceeded
    /\ ~BuildSucceeded
    /\ call.ret = "false"

\* Candidate i is in the store handed to initializeWithAssets.
Exists(am, i) == AssetStatusOf(am, Candidates[i]) # "missing"

\* Candidate i fully initializes: its bytes load as a model and the
\* interpreter is built from it.
FullyInitializes(am, i) ==
    /\ ~call.env.throws
    /\ IF real_tflite
       THEN AssetStatusOf(am, Candidates[i]) = "ok" /\ call.env.build = "ok"
       ELSE AssetStatusOf(am, Candidates[i]) \notin {"missing", "shortread"}

\* The store of the last initializeWithAssets call.
GivenAssets == adapter.asset_manager_

\* The candidate whose model the adapter holds after the call.
UsedCandidate == IF real_tflite THEN adapter.model_buffer_ ELSE adapter.model_path_

WasOpened(i) == \E k \in DOMAIN call.opened : call.opened[k] = Candidates[i]

\* C12: initializeWithAssets walks the candidate list in order and returns
\* true with the first candidate that exists and fully initializes; a
\* candidate that exists but fails to fully initialize does not keep a later
\* existing candidate from being tried.
C12_FirstUsableCandidate ==
    (call.op = "initializeWithAssets" /\ call.arg = "assets" /\ RunsInitialization
        /\ ~call.env.throws)
        => /\ \A i \in DOMAIN Candidates :
                ( FullyInitializes(GivenAssets, i)
                  /\ \A j \in 1..(i - 1) : ~FullyInitializes(GivenAssets, j) )
                    => /\ call.ret = "true"
                       /\ adapter.model_loaded_
                       /\ UsedCandidate = Candidates[i]
           /\ \A i, j \in DOMAIN Candidates :
                ( i < j /\ Exists(GivenAssets, i) /\ Exists(GivenAssets, j)
                  /\ \A k \in 1..i : ~FullyInitializes(GivenAssets, k) )
                    => (WasOpened(i) /\ WasOpened(j))

\* C13: when no candidate exists or every existing one fails to fully
\* initialize, initializeWithAssets returns true and leaves the adapter in
\* fallback mode: initialized_ true, model_loaded_ false.
C13_FallbackInsteadOfFalse ==
    (call.op = "initializeWithAssets" /\ call.arg = "assets" /\ RunsInitialization
        /\ \A i \in DOMAIN Candidates : ~FullyInitializes(GivenAssets, i))
        => /\ call.ret = "true"
           /\ adapter.initialized_
           /\ ~adapter.model_loaded_

StartsWith(str, prefix) ==
    Len(str) >= Len(prefix) /\ SubSeq(str, 1, Len(prefix)) = prefix

\* Some call stack of the last call has fn on it.
Reached(fn) ==
    \E st \in call.stacks : \E i \in DOMAIN st : st[i] = fn

InFallbackMode(s) == s.initialized_ /\ ~s.model_loaded_

\* C14: on an adapter in fallback mode (initialized_ true, model_loaded_
\* false) processInference returns, for every input, a non-empty labelled
\* diagnostic text (the mock-response block with the input excerpt, or the
\* labelled error text when an exception was caught inside), does no
\* tokenization or tensor work, and leaves the adapter as it was.
C14_FallbackModeAnswers ==
    (call.op = "processInference" /\ InFallbackMode(call.pre))
        => /\ call.ret # ""
           /\ ~call.env.throws
                => StartsWith(call.ret,
                              "TensorFlow Lite GPU Mock Response:\nInput: "
                                  \o Substr0(call.arg, 100)
                                  \o (IF Len(call.arg) > 100 THEN "...\n" ELSE "\n"))
           /\ call.env.throws => StartsWith(call.ret, "Error: ")
           /\ ~Reached("tokenizeInput")
           /\ ~Reached("setInputTensor")
           /\ ~Reached("Invoke")
           /\ ~Reached("decodeOutput")
           /\ adapter = call.pre
           /\ InFallbackMode(adapter)

C14_Witness ==
    /\ call.op = "processInference"
    /\ InFallbackMode(call.pre)
    /\ call.arg = LongText
    /\ ~call.env.throws

C14_WitnessNonAscii ==
    /\ call.op = "processInference"
    /\ InFallbackMode(call.pre)
    /\ call.arg \notin {"", "hi", LongText}

\* The engine failed during the last processInference call: an exception, a
\* failed input binding, or an Invoke status other than OK.
EngineFailed ==
    IF real_tflite
    THEN /\ call.pre.interpreter_ # "nullptr"
         /\ \/ call.env.throws
            \/ ~Prod_setInputTensor(call.pre, call.env.in)
            \/ ~call.env.invokeOk
    ELSE /\ call.pre.model_loaded_
         /\ call.env.throws \/ ~Mock_setInputTensor(call.pre)

\* What generateFallbackResponse produces for the input of the last call.
FallbackResponses ==
    IF real_tflite
    THEN {Prod_generateFallbackResponse(call.arg)}
    ELSE {Mock_generateFallbackResponse(call.pre, call.arg, v) : v \in Variations}

\* C15: on an initialized adapter every engine failure inside processInference
\* is caught and the call returns the fallback response that
\* generateFallbackResponse produces for that input.
C15_FailuresBecomeFallback ==
    (call.op = "processInference" /\ call.pre.initialized_ /\ EngineFailed)
        => call.ret \in FallbackResponses

\* C16: isGPUAvailable returns true exactly when a GPU delegate is attached
\* (gpu_delegate_ non-null).
C16_ReflectsDelegate ==
    call.op = "isGPUAvailable"
        => (call.ret = "true" <=> adapter.gpu_delegate_ # "nullptr")

\* C17: getPerformanceScore of the mock GPU adapter, the production GPU
\* adapter and the ONNX adapter returns a value in [0.0, 1.0] in every state,
\* for every random variation and every measured duration; an uninitialized
\* GPU adapter scores 0.0.
C17_ScoreInUnitInterval ==
    /\ call.op \in {"getPerformanceScore", "onnx.getPerformanceScore"}
            => (call.score >= 0 /\ call.score <= 1000)
    /\ (call.op = "getPerformanceScore" /\ ~call.pre.initialized_) => call.score = 0

C17_Witness ==
    /\ call.op = "getPerformanceScore"
    /\ real_tflite
    /\ call.pre.initialized_
    /\ call.pre.gpu_delegate_ = "nullptr"
    /\ call.arg = "2500"

C17_WitnessONNX == call.op = "onnx.getPerformanceScore" /\ call.pre.initialized_

\* C18: no execution of the GPU adapter's getPerformanceScore reaches
\* generateFallbackResponse, directly or through the calls it makes.
C18_ScoreAvoidsFallback ==
    call.op = "getPerformanceScore" => ~Reached("generateFallbackResponse")

\* No function is on the stack twice, and the chain has closed before the
\* depth to which stacks are followed.
NoReentry(st) ==
    /\ Len(st) < MaxCallDepth
    /\ \A i, j \in DOMAIN st : i # j => st[i] # st[j]

\* C19: getPerformanceScore, processInference and the orchestrator's
\* getBackendInfo terminate in every reachable state: the call chain among
\* getPerformanceScore, processInference and generateFallbackResponse never
\* re-enters a function that is on the call stack.
C19_NoReentry ==
    /\ call.op \in {"processInference", "getPerformanceScore"}
            => \A st \in call.stacks : NoReentry(st)
    /\ \A ie \in BenchmarkEnv(real_tflite, adapter) :
            \A st \in Stacks(real_tflite, << "getBackendInfoNative" >>, adapter, ie) :
                NoReentry(st)

C19_Witness ==
    /\ call.op = "processInference"
    /\ InFallbackMode(call.pre)
    /\ << "processInference", "generateFallbackResponse", "getPerformanceScore" >>
            \in call.stacks

C19_WitnessProbe ==
    /\ call.op = "getPerformanceScore"
    /\ << "getPerformanceScore", "processInference", "generateFallbackResponse" >>
            \in call.stacks

\* The place of a resource in the releases of the last cleanup, 0 if it was
\* not released.
ReleasedAt(x) ==
    IF \E i \in DOMAIN call.releases : call.releases[i] = x
    THEN CHOOSE i \in DOMAIN call.releases : call.releases[i] = x
    ELSE 0

ReleasedBefore(x, y) ==
    (ReleasedAt(x) > 0 /\ ReleasedAt(y) > 0) => ReleasedAt(x) < ReleasedAt(y)

\* C20: cleanup releases the delegate before the interpreter, the interpreter
\* before the model, and the model before the raw model buffer.
C20_ReleaseOrder ==
    call.op = "cleanup"
        => /\ ReleasedBefore("gpu_delegate_", "interpreter_")
           /\ ReleasedBefore("interpreter_", "model_")
           /\ ReleasedBefore("model_", "model_buffer_")

\* C21: after cleanup() of the GPU adapter returns, from any state of the
\* adapter (also after an initialize that returned false part-way), the
\* adapter holds no delegate, no interpreter, no model and no model bytes,
\* and model_loaded_ and initialized_ are both false.  The model_ of a mock
\* object that never loaded a model was never assigned: it holds no model.
C21_CleanupReleasesAll ==
    call.op = "cleanup"
        => /\ adapter.gpu_delegate_ = "nullptr"
           /\ adapter.interpreter_ = "nullptr"
           /\ adapter.model_ \in {"nullptr", "indeterminate"}
           /\ adapter.model_buffer_ = ""
           /\ ~adapter.model_loaded_
           /\ ~adapter.initialized_

\* The answer of an adapter that is not initialized.
ServiceNotInitialized == "Error: Service not initialized"

\* C22: cleanup of the GPU adapter and of the ONNX adapter is idempotent: a
\* second consecutive cleanup() changes no field of the adapter and releases
\* nothing, and after cleanup processInference returns "Error: Service not
\* initialized" without running the inference pipeline.
C22_AdapterCleanupIdempotent ==
    /\ call.op = "cleanup"
        => /\ TFLite_cleanup(real_tflite, adapter) = adapter
           /\ \A truthy \in BOOLEAN :
                TFLite_releases(real_tflite, adapter, truthy) = <<>>
           /\ ~call.pre.initialized_ => adapter = call.pre
           /\ \A input \in AdapterTexts :
                \A ie \in AdapterInferEnv(real_tflite, adapter, input) \cup InferEnv(real_tflite) :
                    /\ TFLite_processInference(real_tflite, adapter, input, ie)
                            = ServiceNotInitialized
                    /\ Stacks(real_tflite, << "processInference" >>, adapter, ie)
                            = {<< "processInference" >>}
    /\ call.op = "onnx.cleanup"
        => /\ ONNX_cleanup(onnx_adapter) = onnx_adapter
           /\ ~call.pre.initialized_ => onnx_adapter = call.pre
           /\ \A input \in Texts, throws \in BOOLEAN :
                ONNX_processInference(onnx_adapter, input, throws) = ServiceNotInitialized
    /\ (call.op = "processInference" /\ ~call.pre.initialized_)
        => /\ call.ret = ServiceNotInitialized
           /\ call.stacks = {<< "processInference" >>}
           /\ adapter = call.pre
    /\ (call.op = "onnx.processInference" /\ ~call.pre.initialized_)
        => /\ call.ret = ServiceNotInitialized
           /\ onnx_adapter = call.pre

\* cleanup of an initialized GPU adapter that holds a model and a delegate.
C22_Witness ==
    /\ call.op = "cleanup"
    /\ call.pre.initialized_
    /\ call.pre.model_loaded_
    /\ call.pre.gpu_delegate_ = "ptr"

\* A second cleanup of a GPU adapter that had been initialized from a file.
C22_WitnessSecond ==
    /\ call.op = "cleanup"
    /\ ~call.pre.initialized_
    /\ call.pre.model_path_ # ""
    /\ call.pre.model_ = "nullptr"

\* processInference on an ONNX adapter that was initialized and cleaned up.
C22_WitnessONNX ==
    /\ call.op = "onnx.processInference"
    /\ ~call.pre.initialized_
    /\ call.pre.model_path_ # ""

\* C23: across initialize, initializeWithAssets and cleanup calls of the GPU
\* adapter the raw model byte buffer is never resized, cleared or refilled
\* while a model built from it is still held.  Only the production build
\* builds a model over the buffer; the mock's model_ is a constant.
C23_BufferOutlivesModel ==
    /\ (call.op = "initializeWithAssets" /\ real_tflite)
        => LET given   == IF call.arg = "null" THEN Null ELSE adapter.asset_manager_
               refills == Prod_refillsOfInitializeWithAssets(call.pre, given, call.env) IN
           \A k \in DOMAIN refills : refills[k] # "ptr_buffer"
    /\ (call.op = "cleanup" /\ call.pre.model_ = "ptr_buffer"
                            /\ ReleasedAt("model_buffer_") > 0)
        => /\ ReleasedAt("model_") > 0
           /\ ReleasedAt("model_") < ReleasedAt("model_buffer_")

\* C24: a live GPU adapter is never hot-swapped: initialize or
\* initializeWithAssets on an adapter that is already initialized leaves its
\* model, interpreter, delegate, model buffer and model path unchanged, in
\* the mock build and in the production build.
C24_NoHotSwap ==
    (call.op \in {"initialize", "initializeWithAssets"} /\ call.pre.initialized_)
        => /\ adapter.model_ = call.pre.model_
           /\ adapter.interpreter_ = call.pre.interpreter_
           /\ adapter.gpu_delegate_ = call.pre.gpu_delegate_
           /\ adapter.model_buffer_ = call.pre.model_buffer_
           /\ adapter.model_path_ = call.pre.model_path_

(***************************************************************************)
(* The text and tensor functions of the GPU adapter (tokenizeInput,        *)
(* setInputTensor, decodeOutput), applied to drawn arguments on an adapter *)
(* that initialize has brought up.                                         *)
(***************************************************************************)
\* Length of the longest text handed to tokenizeInput.
MaxTextLen == 770

\* Byte patterns a text repeats: letters, letters and a line feed, a two-byte
\* UTF-8 character and a space, bytes of which none is printable ASCII.
BytePatterns ==
    { << 104, 105 >>, << 97, 10, 98 >>, << 195, 169, 32 >>, << 127, 31, 200 >> }

RepeatBytes(pattern, n) == [i \in 1..n |-> pattern[((i - 1) % Len(pattern)) + 1]]

\* Lengths around both token limits, and short and long ones.
TextLengths ==
    {0, 1, 2, MaxTextLen}
        \cup { max_tokens + d : d \in -2..1 }
        \cup { max_length + d : d \in -3..1 }

TokenTexts == { RepeatBytes(p, n) : p \in BytePatterns, n \in TextLengths }

\* Token sequences handed to setInputTensor: every short one over three
\* values, and a tokenized text.
MaxTokenCount == 3

TokenValues == {0, 104, -61}

TokenSequences ==
    UNION { [1..n -> TokenValues] : n \in 0..MaxTokenCount }
        \cup { Prod_tokenizeInput(<< 104, 105 >>, TRUE) }

\* Capacities of the first input tensor in 4-byte elements, and the cells
\* that follow the tensor in memory.
MaxCapacity == 4

GuardCells == 2

Capacities == 0..MaxCapacity \cup {max_tokens, max_tokens + GuardCells}

\* Float score vectors (in thousandths) of the first output tensor.
MaxScores == 4

ScoreValues == {-50, 100, 900}

ScoreVectors == UNION { [1..n -> ScoreValues] : n \in 1..MaxScores }

FloatTensor(dims, data) ==
    [kind |-> "tensor", type |-> "kTfLiteFloat32", dims |-> dims, data |-> data]

\* The vectors as a flat tensor, as one position of a rank-3 tensor and, cut
\* in two, as two positions of a rank-3 tensor.
DecodeOutputs ==
    OutTensors
        \cup { FloatTensor(<< 1, Len(v) >>, v) : v \in ScoreVectors }
        \cup { FloatTensor(<< 1, 1, Len(v) >>, v) : v \in ScoreVectors }
        \cup { FloatTensor(<< 1, 2, Len(v) \div 2 >>, v) :
                    v \in {w \in ScoreVectors : Len(w) % 2 = 0} }

\* sizeof the element type of a tensor.
ElementSize(type) == IF type = "kTfLiteUInt8" THEN 1 ELSE 4

\* First output tensors that hold no element: a dimension is 0.
EmptyTensors ==
    { [kind |-> "tensor", type |-> ty, dims |-> d, data |-> <<>>] :
        ty \in {"kTfLiteFloat32", "kTfLiteInt32", "kTfLiteUInt8"},
        d \in { << 0 >>, << 1, 0 >>, << 1, 1, 0 >>, << 1, 0, 4 >> } }

\* The adapter after a successful initialize from a file.
InitializedAdapter(real) ==
    TFLite_initialize(real, TFLiteGPUService(real), "/data/model.tflite",
                      [throws |-> FALSE, fileOk |-> TRUE, delegateOk |-> TRUE,
                       build |-> "ok"]).svc

CodecInit ==
    /\ real_tflite \in BOOLEAN
    /\ is_initialized = FALSE
    /\ active_backend = "none"
    /\ tflite_service = Null
    /\ onnx_service = Null
    /\ last = [op |-> "none", arg |-> "", ret |-> "", calls |-> <<>>,
               result |-> "", pre |-> Lifecycle(Globals(FALSE, "none", Null, Null)),
               was_cleaned_up |-> FALSE]
    /\ cleaned_up = FALSE
    /\ threads = NoThreads
    /\ adapter = InitializedAdapter(real_tflite)
    /\ onnx_adapter = ONNXMobileService
    /\ call = NoCall(adapter)

\* A call of one of the functions by processInference, which holds its
\* result until it has used it.
Applied(c) ==
    /\ call.op = "none"
    /\ call' = c
    /\ UNCHANGED <<real_tflite, adapter, onnx_adapter, Orchestrator>>

tokenizeInput ==
    \E input \in TokenTexts, signed \in BOOLEAN :
        Applied([op |-> "tokenizeInput", input |-> input, signed |-> signed,
                 pushed |-> IF real_tflite THEN Prod_pushedTokens(input, signed)
                            ELSE Mock_pushedTokens(input, signed),
                 tokens |-> TFLite_tokenizeInput(real_tflite, input, signed)])

\* Before the call the cells hold what was there.
setInputTensor ==
    /\ real_tflite
    /\ \E in \in Inputs, tokens \in TokenSequences, cap \in Capacities :
        LET mem == [i \in 1..(cap + GuardCells) |-> Cell("old", 0)]
            r   == Prod_setInputTensorData(adapter, in, tokens, 4 * cap, mem) IN
        Applied([op |-> "setInputTensor", in |-> in, tokens |-> tokens,
                 bytes |-> 4 * cap, pre_mem |-> mem, mem |-> r.mem, ret |-> r.ret])

decodeOutput ==
    /\ real_tflite
    /\ \E out \in DecodeOutputs :
        Applied([op |-> "decodeOutput", out |-> out,
                 bytes |-> ElementSize(out.type) * Len(out.data),
                 text |-> Prod_decodeOutput(adapter, out),
                 reads |-> Prod_decodeOutputReads(adapter, out,
                                ElementSize(out.type) * Len(out.data))])

\* decodeOutput on a first output tensor that holds no element.  What the
\* read of data[0] finds outside the buffer is any value.
decodeEmptyOutput ==
    /\ real_tflite
    /\ \E out \in EmptyTensors, bytes \in 0..3, found \in ScoreValues :
        /\ out.type = "kTfLiteUInt8" => bytes = 0
        /\ out.type # "kTfLiteFloat32" => found = 100
        /\ Applied([op |-> "decodeEmptyOutput", out |-> out, bytes |-> bytes,
                    text |-> Prod_decodeOutput(adapter,
                                IF out.type = "kTfLiteFloat32"
                                THEN [out EXCEPT !.data = << found >>] ELSE out),
                    reads |-> Prod_decodeOutputReads(adapter, out, bytes)])

CodecNext ==
    \/ tokenizeInput
    \/ setInputTensor
    \/ decodeOutput
    \/ decodeEmptyOutput
    \/ takeResult

CodecSpec == CodecInit /\ [][CodecNext]_vars

\* C25: tokenizeInput returns exactly L tokens for every text (L = 512 in the
\* mock build, 128 in the production build): where the text yields fewer than
\* L tokens they are followed by zeros only, and where it yields more the
\* result is the first L of them, with no padding.
C25_PadOrTruncate ==
    call.op = "tokenizeInput"
        => LET L == IF real_tflite THEN 128 ELSE 512
               n == Len(call.pushed) IN
           /\ Len(call.tokens) = L
           /\ \A i \in 1..L :
                call.tokens[i] = IF i <= n THEN call.pushed[i] ELSE 0

\* A text that yields fewer tokens than L, and one that yields more.
C25_Witness ==
    /\ call.op = "tokenizeInput"
    /\ Len(call.pushed) > 0
    /\ Len(call.pushed) < Len(call.tokens)
    /\ call.tokens[Len(call.tokens)] = 0

C25_WitnessTruncated ==
    /\ call.op = "tokenizeInput"
    /\ ~real_tflite
    /\ Len(call.input) > Len(call.pushed)
    /\ Len(call.pushed) > Len(call.tokens)
    /\ call.tokens[Len(call.tokens)] # 0

\* What decodeOutput prints for an arg-max: the index and its raw score.
ReportText(label, i, score) ==
    "TensorFlow Lite response (" \o label \o ToString(i) \o ", score: "
    \o Fixed3(score) \o ")"

\* A rank-3 tensor [batch, sequence, vocabulary] with batch >= 1,
\* sequence >= 1 and vocabulary > 0.
IsRank3(out) ==
    /\ Len(out.dims) = 3
    /\ out.dims[1] >= 1 /\ out.dims[2] >= 1 /\ out.dims[3] > 0

\* The score vector at the last sequence position of a rank-3 tensor.
LastPosition(out) ==
    LET v == out.dims[3] IN SubSeq(out.data, (out.dims[2] - 1) * v + 1, out.dims[2] * v)

\* i (zero-based) is the smallest index holding the maximum of vec.
FirstMax(vec, i) ==
    /\ \A j \in 0..(Len(vec) - 1) : vec[i + 1] >= vec[j + 1]
    /\ \A j \in 0..(i - 1) : vec[j + 1] < vec[i + 1]

\* C26: both arg-max scans of decodeOutput (over the last position of a
\* rank-3 tensor and over the flat buffer) report the smallest index that
\* holds the maximum score, e.g. index 1 for [0.1, 0.9, 0.9, 0.2].
C26_FirstMaxWins ==
    (call.op = "decodeOutput" /\ call.out.type = "kTfLiteFloat32")
        => LET vec   == IF IsRank3(call.out) THEN LastPosition(call.out)
                        ELSE call.out.data
               label == IF IsRank3(call.out) THEN "next token " ELSE "token " IN
           \E i \in 0..(Len(vec) - 1) :
                /\ call.text = ReportText(label, i, vec[i + 1])
                /\ FirstMax(vec, i)

C26_Witness ==
    /\ call.op = "decodeOutput"
    /\ call.out = FloatTensor(<< 1, 4 >>, << 100, 900, 900, 200 >>)
    /\ call.text = "TensorFlow Lite response (token 1, score: 0.900)"

\* A tie at the last of two positions of a rank-3 tensor.
C26_WitnessRank3 ==
    /\ call.op = "decodeOutput"
    /\ call.out = FloatTensor(<< 1, 2, 2 >>, << 900, 100, -50, -50 >>)
    /\ call.text = "TensorFlow Lite response (next token 0, score: -0.050)"

\* C27: whenever the first output tensor has rank 3 with batch >= 1,
\* sequence >= 1 and vocabulary > 0, decodeOutput reports the arg-max over
\* the score vector at the last sequence position and its score, before the
\* flat arg-max and the character decoding, whatever the element type.
C27_Rank3First ==
    (call.op = "decodeOutput" /\ call.out.kind = "tensor" /\ IsRank3(call.out))
        => LET vec == LastPosition(call.out) IN
           \E i \in 0..(Len(vec) - 1) :
                /\ call.text = ReportText("next token ", i, vec[i + 1])
                /\ FirstMax(vec, i)

\* C28: setInputTensor writes exactly min(token count, byte capacity of the
\* tensor / element size) elements into the first input tensor (the token
\* values for an int32 tensor, the same values as floats for a float32
\* tensor) and never writes past the tensor's byte capacity, for every
\* length of the token sequence and every capacity.
C28_WriteWithinCapacity ==
    (call.op = "setInputTensor" /\ call.in \in {"kTfLiteInt32", "kTfLiteFloat32"})
        => LET written == Min(Len(call.tokens), call.bytes \div 4)
               type    == IF call.in = "kTfLiteInt32" THEN "int32" ELSE "float" IN
           /\ call.ret
           /\ \A i \in DOMAIN call.mem :
                call.mem[i] = IF i <= written THEN Cell(type, call.tokens[i])
                              ELSE call.pre_mem[i]

\* More tokens than the tensor holds, and a tensor that holds more than the
\* tokens given.
C28_Witness ==
    /\ call.op = "setInputTensor"
    /\ call.in = "kTfLiteInt32"
    /\ Len(call.tokens) = max_tokens
    /\ call.bytes = 4 * MaxCapacity
    /\ call.mem[MaxCapacity] = Cell("int32", 0)
    /\ call.mem[MaxCapacity + 1] = Cell("old", 0)

C28_WitnessFloat ==
    /\ call.op = "setInputTensor"
    /\ call.in = "kTfLiteFloat32"
    /\ call.tokens = << 104, -61 >>
    /\ call.bytes = 12
    /\ call.mem[2] = Cell("float", -61)
    /\ call.mem[3] = Cell("old", 0)

\* C29: when the element type of the first input tensor is neither int32 nor
\* float32, setInputTensor writes nothing and reports failure, and the
\* processInference around it returns a non-empty labelled string without
\* invoking the engine and without changing the adapter's initialized_ and
\* model_loaded_.
C29_UnsupportedInputType ==
    (/\ call.op = "processInference"
     /\ real_tflite
     /\ call.pre.initialized_
     /\ call.pre.interpreter_ # "nullptr"
     /\ ~call.env.throws
     /\ call.env.in \notin {"none", "nulltensor", "kTfLiteInt32", "kTfLiteFloat32"})
        => /\ \A tokens \in TokenSequences, cap \in Capacities :
                LET mem == [i \in 1..(cap + GuardCells) |-> Cell("old", 0)] IN
                Prod_setInputTensorData(call.pre, call.env.in, tokens, 4 * cap, mem)
                    = [mem |-> mem, ret |-> FALSE]
           /\ Reached("setInputTensor")
           /\ ~Reached("Invoke")
           /\ call.ret # ""
           /\ StartsWith(call.ret, "TensorFlow Lite processed: '")
           /\ adapter.initialized_ = call.pre.initialized_
           /\ adapter.model_loaded_ = call.pre.model_loaded_

C29_Witness ==
    /\ call.op = "processInference"
    /\ real_tflite
    /\ call.pre.initialized_
    /\ ~call.env.throws
    /\ call.env.in = "kTfLiteUInt8"
    /\ call.arg = "hi"
    /\ call.ret = "TensorFlow Lite processed: 'hi' [Fallback mode]"

\* C30: in every state the orchestrator's initialize, initializeWithAssets,
\* processInference, getBackendInfo and cleanup calls can reach, if the
\* orchestrator is initialized then the adapter instance the active backend
\* names exists and is itself initialized, also after a later initialize or
\* initializeWithAssets call that fails.
C30_ActiveAdapterLive ==
    is_initialized
        => /\ active_backend \in {"tflite_gpu", "onnx_mobile"}
           /\ active_backend = "tflite_gpu"
                => (tflite_service # Null /\ tflite_service[1].initialized_)
           /\ active_backend = "onnx_mobile"
                => (onnx_service # Null /\ onnx_service[1].initialized_)

\* C32: at every operation boundary the orchestrator holds no adapter
\* instance other than the active one: across repeated initialize calls an
\* adapter that is not the active backend is released (its pointer is null).
C32_OnlyActiveHeld ==
    /\ active_backend # "tflite_gpu" => tflite_service = Null
    /\ active_backend # "onnx_mobile" => onnx_service = Null

\* C35: in every reachable state of a GPU adapter, mock or production,
\* initialized_ together with model_loaded_ implies that a model and an
\* interpreter are present, after any sequence of initialize,
\* initializeWithAssets and cleanup calls.
C35_LoadedMeansPresent ==
    (adapter.initialized_ /\ adapter.model_loaded_)
        => /\ adapter.model_ \in {"ptr", "ptr_buffer"}
           /\ adapter.interpreter_ = "ptr"

\* The production adapter brought up from an asset after an earlier attempt
\* had failed at the interpreter build.
C35_Witness ==
    /\ call.op = "initializeWithAssets"
    /\ real_tflite
    /\ call.pre.model_loaded_
    /\ ~call.pre.initialized_
    /\ call.ret = "true"
    /\ adapter.initialized_ /\ adapter.model_loaded_
    /\ adapter.model_ = "ptr_buffer"

\* A failing initialize on a live mock adapter.
C35_WitnessLiveMock ==
    /\ call.op = "initialize"
    /\ ~real_tflite
    /\ call.pre.initialized_
    /\ call.ret = "false"
    /\ adapter.initialized_ /\ adapter.model_loaded_

\* cleanup of an initialized adapter, after which neither flag is set.
C35_WitnessCleanup ==
    /\ call.op = "cleanup"
    /\ call.pre.initialized_ /\ call.pre.model_loaded_
    /\ ~adapter.initialized_

\* The call stacks of the warm-up in the last initialize call, when the
\* warm-up inference meets ie.
WarmUpStacks(ie) ==
    LET at == Mock_atWarmUp(call.pre, call.arg, call.env) IN
    IF at = <<>> THEN {} ELSE Stacks(FALSE, << "warmUpModel" >>, at[1], ie)

\* C33: during initialize of a freshly constructed mock GPU adapter whose
\* model loaded, the processInference("warmup") call of warmUpModel runs the
\* inference pipeline (tokenizeInput, setInputTensor, decodeOutput) before
\* initialize returns true.
C33_WarmUpRunsPipeline ==
    (/\ call.op = "initialize"
     /\ ~real_tflite
     /\ call.pre = Mock_TFLiteGPUService
     /\ call.ret = "true")
        => \A ie \in {e \in InferEnv(FALSE) : ~e.throws} :
             \A fn \in {"tokenizeInput", "setInputTensor", "decodeOutput"} :
                << "warmUpModel", "processInference", fn >> \in WarmUpStacks(ie)

\* C34: decodeOutput reads only elements inside the buffer of the first
\* output tensor: for every byte length of the tensor, also one smaller than
\* an element, and every rank, each index it reads is below
\* bytes / element size.
C34_ReadsInsideBuffer ==
    call.op \in {"decodeOutput", "decodeEmptyOutput"}
        => \A i \in call.reads :
                i >= 0 /\ i < call.bytes \div ElementSize(call.out.type)

(***************************************************************************)
(* processInferenceNative on one thread and cleanupNative on another, with *)
(* no lock around either (mobile_ai_jni_bridge.cpp takes none): each read  *)
(* or write of a global and each adapter call is a step of its thread, and *)
(* the steps of the two threads interleave.  The orchestrator has been     *)
(* initialized by initializeNative.                                        *)
(***************************************************************************)
\* The globals after an initializeNative call that returned true.
InitializedGlobals(real) ==
    { initializeNativeCall(real, Globals(FALSE, "none", Null, Null),
                           "/data/model.tflite", e, throws).g :
        e \in FileInitEnv(real), throws \in BOOLEAN } \ { g \in
    { initializeNativeCall(real, Globals(FALSE, "none", Null, Null),
                           "/data/model.tflite", e, throws).g :
        e \in FileInitEnv(real), throws \in BOOLEAN } : ~g.is_initialized }

\* What the one inference of the in-flight call meets in the adapter.
RaceInferEnv(real) ==
    IF real
    THEN [throws |-> FALSE, in |-> "kTfLiteInt32", invokeOk |-> TRUE,
          out |-> FloatTensor(<< 1, 4 >>, << 100, 900, 900, 200 >>)]
    ELSE [throws |-> FALSE, tmpl |-> 1, cont |-> 1, variation |-> 0]

RaceInit ==
    /\ real_tflite \in BOOLEAN
    /\ \E g \in InitializedGlobals(real_tflite) :
        /\ is_initialized = g.is_initialized
        /\ active_backend = g.active_backend
        /\ tflite_service = g.tflite_service
        /\ onnx_service = g.onnx_service
    /\ last = [op |-> "none", arg |-> "", ret |-> "", calls |-> <<>>,
               result |-> "", pre |-> Lifecycle(Globals(FALSE, "none", Null, Null)),
               was_cleaned_up |-> FALSE]
    /\ cleaned_up = FALSE
    /\ adapter = TFLiteGPUService(real_tflite)
    /\ onnx_adapter = ONNXMobileService
    /\ call = NoCall(adapter)
    /\ threads = NoThreads

RaceFixed == <<real_tflite, last, cleaned_up, adapter, onnx_adapter, call>>

\* A step of the thread in processInferenceNative.
InferenceStep(from, to, result, entered) ==
    /\ threads.inference.pc = from
    /\ threads' = [threads EXCEPT !.inference.pc = to,
                                  !.inference.result = result,
                                  !.inference.entered = entered]
    /\ UNCHANGED <<is_initialized, active_backend, tflite_service, onnx_service,
                   RaceFixed>>

\* Line 161: the call starts and tests is_initialized.
pi_testInitialized ==
    /\ threads.inference.pc = "idle"
    /\ \E input \in Texts :
        threads' = [threads EXCEPT
                        !.inference = [pc |-> IF is_initialized THEN "test_tflite"
                                              ELSE "done",
                                       input |-> input,
                                       result |-> IF is_initialized THEN ""
                                                  ELSE NotInitializedSentinel,
                                       entered |-> "none"]]
    /\ UNCHANGED <<is_initialized, active_backend, tflite_service, onnx_service,
                   RaceFixed>>

\* Line 173: active_backend == "tflite_gpu" && tflite_service.
pi_testTFLite ==
    InferenceStep("test_tflite",
                  IF active_backend = "tflite_gpu" /\ tflite_service # Null
                  THEN "call_tflite" ELSE "test_onnx",
                  threads.inference.result, threads.inference.entered)

\* What a call through a service pointer meets: a live adapter, one that
\* cleanup() has been run on, or none (the pointer has been reset).
Meets(service) ==
    IF service = Null THEN "destroyed"
    ELSE IF ~service[1].initialized_ THEN "cleaned"
    ELSE "live"

\* Line 174: tflite_service->processInference(input).  Through a reset
\* pointer the call crashes or returns any text.
pi_callTFLite ==
    \E crash \in BOOLEAN, text \in {"", NotInitializedSentinel} :
        /\ tflite_service # Null => (~crash /\ text = "")
        /\ InferenceStep("call_tflite",
                         IF tflite_service = Null /\ crash THEN "crashed"
                         ELSE "test_onnx",
                         IF tflite_service = Null THEN text
                         ELSE TFLite_processInference(real_tflite, tflite_service[1],
                                                      threads.inference.input,
                                                      RaceInferEnv(real_tflite)),
                         Meets(tflite_service))

\* Line 179: active_backend == "onnx_mobile" && onnx_service.
pi_testONNX ==
    InferenceStep("test_onnx",
                  IF active_backend = "onnx_mobile" /\ onnx_service # Null
                  THEN "call_onnx" ELSE "finish",
                  threads.inference.result, threads.inference.entered)

\* Line 180: onnx_service->processInference(input).
pi_callONNX ==
    \E crash \in BOOLEAN, text \in {"", NotInitializedSentinel} :
        /\ onnx_service # Null => (~crash /\ text = "")
        /\ InferenceStep("call_onnx",
                         IF onnx_service = Null /\ crash THEN "crashed" ELSE "finish",
                         IF onnx_service = Null THEN text
                         ELSE ONNX_processInference(onnx_service[1],
                                                    threads.inference.input, FALSE),
                         Meets(onnx_service))

\* Lines 184-189: an empty result becomes the sentinel; the call returns.
pi_return ==
    InferenceStep("finish", "done",
                  IF threads.inference.result = "" THEN NoBackendSentinel
                  ELSE threads.inference.result,
                  threads.inference.entered)

\* A step of the thread in cleanupNative that assigns the globals.
CleanupStep(from, to, g) ==
    /\ threads.cleanup.pc = from
    /\ threads' = [threads EXCEPT !.cleanup.pc = to]
    /\ is_initialized' = g.is_initialized
    /\ active_backend' = g.active_backend
    /\ tflite_service' = g.tflite_service
    /\ onnx_service' = g.onnx_service
    /\ UNCHANGED RaceFixed

\* Line 234: if (tflite_service).
cl_testTFLite ==
    CleanupStep("idle", IF tflite_service # Null THEN "cleanup_tflite" ELSE "test_onnx",
                Current)

\* Line 235: tflite_service->cleanup().
cl_cleanupTFLite ==
    CleanupStep("cleanup_tflite", "reset_tflite",
                [Current EXCEPT !.tflite_service =
                        << TFLite_cleanup(real_tflite, tflite_service[1]) >>])

\* Line 236: tflite_service.reset().
cl_resetTFLite ==
    CleanupStep("reset_tflite", "test_onnx", [Current EXCEPT !.tflite_service = Null])

\* Line 241: if (onnx_service).
cl_testONNX ==
    CleanupStep("test_onnx", IF onnx_service # Null THEN "cleanup_onnx" ELSE "clear_flag",
                Current)

\* Line 242: onnx_service->cleanup().
cl_cleanupONNX ==
    CleanupStep("cleanup_onnx", "reset_onnx",
                [Current EXCEPT !.onnx_service = << ONNX_cleanup(onnx_service[1]) >>])

\* Line 243: onnx_service.reset().
cl_resetONNX ==
    CleanupStep("reset_onnx", "clear_flag", [Current EXCEPT !.onnx_service = Null])

\* Line 246: is_initialized = false.
cl_clearInitialized ==
    CleanupStep("clear_flag", "clear_backend", [Current EXCEPT !.is_initialized = FALSE])

\* Line 247: active_backend = "none"; the call returns.
cl_clearBackend ==
    CleanupStep("clear_backend", "done", [Current EXCEPT !.active_backend = "none"])

RaceNext ==
    \/ pi_testInitialized
    \/ pi_testTFLite
    \/ pi_callTFLite
    \/ pi_testONNX
    \/ pi_callONNX
    \/ pi_return
    \/ cl_testTFLite
    \/ cl_cleanupTFLite
    \/ cl_resetTFLite
    \/ cl_testONNX
    \/ cl_cleanupONNX
    \/ cl_resetONNX
    \/ cl_clearInitialized
    \/ cl_clearBackend

RaceSpec == RaceInit /\ [][RaceNext]_vars

\* C31: when cleanup runs on another thread while a processInference is in
\* flight, with no lock, processInference never calls into an adapter
\* instance that cleanup has already cleaned up or destroyed.
C31_NoCallIntoReleased ==
    threads.inference.entered \in {"none", "live"}
====
